---- MODULE Spec2Model ----
(***************************************************************************)
(* ln-stream: the mutex-guarded lifecycle controller of the live-update    *)
(* loop (package routes) and the batched bulk importer (package lnd).      *)
(***************************************************************************)
EXTENDS Integers, Sequences, FiniteSets, TLC

(* ------------------------------ bounds -------------------------------- *)
\* HTTP requests in flight at a time (gin serves each in its own goroutine)
MaxReq == 2
\* loops (and cancellation channels) the model lets the controller launch
MaxLoops == 2

Loops == 1..MaxLoops
Kinds == {"toggle", "reset", "load", "status"}

\* a request blocked in mu.Lock(): its route and, for a toggle, the state that
\* was current when it was issued
Descr ==
    {[kind |-> "toggle", sawRunning |-> b] : b \in BOOLEAN}
      \cup {[kind |-> k, sawRunning |-> FALSE] : k \in Kinds \ {"toggle"}}

VARIABLES
    LndServices,       \* TRUE iff routes.LndServices # nil
    mu,                \* TRUE iff a handler holds the mutex
    isRoutineRunning,
    stopChannel,       \* 0 = nil, c = the c-th channel made
    chanClosed,        \* the channels close() has been called on
    launched,          \* number of goroutines started by `go subscribeToGraphUpdates`
    loop,              \* loop[l] = [pc, stop] of the l-th goroutine
    waiting,           \* waiting[d] = number of requests d blocked in mu.Lock()
    handler,           \* the reset or load handler that holds mu: [kind, pc]
    resp,              \* the last response a handler sent: [msg, sawRunning]
    graph,             \* the graph handed to WriteGraphToMemgraph: [Nodes, Edges]
    ipc,               \* where WriteGraphToMemgraph is
    idx,               \* the loop variable i of the batch loop in progress
    relations,         \* writeChannelsToMemgraph: the flattened edge records
    runs,              \* the session.Run calls issued so far: [q, rows, ok]
    ierr,              \* what WriteGraphToMemgraph returned: "nil" or the failed call
    cid,               \* the uint64 handed to convertChannelIDToString, as four 16-bit words
    cstr,              \* the string it returned, one character per element
    store,             \* the graph store: [nodes, edges]
    imported,          \* the session.Run calls of the import that ran last
    held,              \* the store as it was when the request in hand reached DropDatabase
    IsRoutineRunning,  \* routes.go: the flag of the handlers that take no mutex
    StopChannel,       \* routes.go: 0 = nil, c = a channel of Chans
    closedChannels,    \* routes.go: the channels close() has been called on
    request,           \* routes.go: request[r] = [kind, pc, ch] of the r-th request in flight
    goroutine          \* routes.go: goroutine[g] = [pc, ch] of the g-th SubscribeToGraphUpdates

lifeVars == <<LndServices, mu, isRoutineRunning, stopChannel, chanClosed,
              launched, loop, waiting, handler, resp>>

impVars == <<graph, ipc, idx, relations, runs, ierr>>

\* the package variables of routes.go and its goroutines
routesVars == <<IsRoutineRunning, StopChannel, closedChannels, request, goroutine>>

\* the variables of the ID codec and of the graph store
dataVars == <<cid, cstr, store, imported, held, routesVars>>

vars == <<LndServices, mu, isRoutineRunning, stopChannel, chanClosed,
          launched, loop, waiting, handler, resp, graph, ipc, idx, relations, runs, ierr,
          cid, cstr, store, imported, held,
          IsRoutineRunning, StopChannel, closedChannels, request, goroutine>>

NoRequest == [kind |-> "none", pc |-> "none", ch |-> 0]
NoGoroutine == [pc |-> "none", ch |-> 0]

\* routes.go at process start: the flag is declared true, StopChannel is nil
\* and main starts no goroutine
InitRoutes ==
    /\ IsRoutineRunning = TRUE
    /\ StopChannel = 0
    /\ closedChannels = {}
    /\ request = [r \in 1..MaxReq |-> NoRequest]
    /\ goroutine = [g \in Loops |-> NoGoroutine]

\* no conversion has been asked for and the store is empty
DataIdle ==
    /\ cid = <<0, 0, 0, 0>>
    /\ cstr = <<>>
    /\ store = [nodes |-> <<>>, edges |-> {}]
    /\ imported = <<>>
    /\ held = [nodes |-> <<>>, edges |-> {}]
    /\ InitRoutes

NoLoop == [pc |-> "none", stop |-> 0]
NoHandler == [kind |-> "none", pc |-> "none"]
NoResp == [msg |-> "none", sawRunning |-> FALSE]

Init ==
    /\ LndServices \in BOOLEAN
    /\ mu = FALSE
    /\ isRoutineRunning = FALSE
    /\ stopChannel = 0
    /\ chanClosed = {}
    /\ launched = 0
    /\ loop = [l \in Loops |-> NoLoop]
    /\ waiting = [d \in Descr |-> 0]
    /\ handler = NoHandler
    /\ resp = NoResp
    /\ graph = [Nodes |-> <<>>, Edges |-> <<>>]
    /\ ipc = "idle"
    /\ idx = 0
    /\ relations = <<>>
    /\ runs = <<>>
    /\ ierr = "none"
    /\ DataIdle

(* ---------------------------- the handlers ---------------------------- *)

RECURSIVE SumOver(_, _)
SumOver(f, S) ==
    IF S = {} THEN 0
    ELSE LET d == CHOOSE x \in S : TRUE IN f[d] + SumOver(f, S \ {d})

\* requests that have reached a handler and not returned
InFlight == SumOver(waiting, Descr) + (IF handler.pc = "none" THEN 0 ELSE 1)

\* a request reaches its handler, whose first statement is mu.Lock(); at most
\* cap requests are in flight
Arrive(k, cap) ==
    /\ InFlight < cap
    /\ LET d == [kind |-> k, sawRunning |-> (k = "toggle" /\ isRoutineRunning)]
       IN waiting' = [waiting EXCEPT ![d] = @ + 1]
    /\ UNCHANGED <<dataVars, impVars, LndServices, mu, isRoutineRunning, stopChannel, chanClosed,
                   launched, loop, handler, resp>>

\* a handler that goes on without waiting for mu
LockNoWait(d) ==
    /\ waiting[d] > 0
    /\ waiting' = [waiting EXCEPT ![d] = @ - 1]

\* mu.Lock() returns in the handler of a waiting request d
Lock(d) ==
    /\ ~mu
    /\ waiting[d] > 0
    /\ waiting' = [waiting EXCEPT ![d] = @ - 1]

\* stopRoutine without its close(stopChannel)
stopRoutineNoClose == chanClosed

\* stopRoutine: the channels closed and the flag after the call
stopRoutineClosed ==
    IF isRoutineRunning THEN chanClosed \cup {stopChannel} ELSE chanClosed

\* stopRoutine without its isRoutineRunning = false
stopRoutineFlagKept == isRoutineRunning

\* stopRoutine: the flag after the call
stopRoutineFlag == FALSE

\* requireLND without its nil check
requireLNDNoCheck == TRUE

\* requireLND: false (and a 400 response) when LndServices is nil
requireLND == LndServices

\* a launch that hands the goroutine the channel stopChannel held before the make
launchLoopPrevious(c) == [pc |-> "subscribe", stop |-> stopChannel]

\* the goroutine `go subscribeToGraphUpdates(stop)` starts in
launchLoop(c) == [pc |-> "subscribe", stop |-> c]

\* a handler that makes the channel only while stopChannel is nil and starts
\* every later loop on the channel it already holds
ToggleUpdatesHandlerReusesChannel(d) ==
    /\ d.kind = "toggle"
    /\ Lock(d)
    /\ IF ~requireLND
         THEN /\ resp' = [msg |-> "toggle:400", sawRunning |-> d.sawRunning]
              /\ UNCHANGED <<isRoutineRunning, stopChannel, chanClosed, launched, loop>>
         ELSE IF ~isRoutineRunning
           THEN /\ launched < MaxLoops
                /\ stopChannel' = (IF stopChannel = 0 THEN launched + 1 ELSE stopChannel)
                /\ isRoutineRunning' = TRUE
                /\ launched' = launched + 1
                /\ loop' = [loop EXCEPT ![launched + 1] = launchLoop(stopChannel')]
                /\ resp' = [msg |-> "toggle:started", sawRunning |-> d.sawRunning]
                /\ UNCHANGED chanClosed
           ELSE /\ chanClosed' = stopRoutineClosed
                /\ isRoutineRunning' = stopRoutineFlag
                /\ resp' = [msg |-> "toggle:stopped", sawRunning |-> d.sawRunning]
                /\ UNCHANGED <<stopChannel, launched, loop>>
    /\ UNCHANGED <<dataVars, impVars, LndServices, mu, handler>>

\* the whole handler: it holds mu from its first to its last statement
ToggleUpdatesHandler(d) ==
    /\ d.kind = "toggle"
    /\ Lock(d)
    /\ IF ~requireLND
         THEN /\ resp' = [msg |-> "toggle:400", sawRunning |-> d.sawRunning]
              /\ UNCHANGED <<isRoutineRunning, stopChannel, chanClosed, launched, loop>>
         ELSE IF ~isRoutineRunning
           THEN /\ launched < MaxLoops
                /\ stopChannel' = launched + 1
                /\ isRoutineRunning' = TRUE
                /\ launched' = launched + 1
                /\ loop' = [loop EXCEPT ![launched + 1] = launchLoop(stopChannel')]
                /\ resp' = [msg |-> "toggle:started", sawRunning |-> d.sawRunning]
                /\ UNCHANGED chanClosed
           ELSE /\ chanClosed' = stopRoutineClosed
                /\ isRoutineRunning' = stopRoutineFlag
                /\ resp' = [msg |-> "toggle:stopped", sawRunning |-> d.sawRunning]
                /\ UNCHANGED <<stopChannel, launched, loop>>
    /\ UNCHANGED <<dataVars, impVars, LndServices, mu, handler>>

\* ResetGraphHandler up to and including stopRoutine()
ResetGraphHandler(d) ==
    /\ d.kind = "reset"
    /\ Lock(d)
    /\ IF ~requireLND
         THEN /\ resp' = [msg |-> "reset:400", sawRunning |-> FALSE]
              /\ UNCHANGED <<mu, handler, isRoutineRunning, chanClosed>>
         ELSE /\ mu' = TRUE
              /\ handler' = [kind |-> "reset", pc |-> "drop"]
              /\ chanClosed' = stopRoutineClosed
              /\ isRoutineRunning' = stopRoutineFlag
              /\ UNCHANGED resp
    /\ UNCHANGED <<dataVars, impVars, LndServices, stopChannel, launched, loop>>

\* LoadLocalSnapshot up to and including stopRoutine()
LoadLocalSnapshot(d) ==
    /\ d.kind = "load"
    /\ Lock(d)
    /\ mu' = TRUE
    /\ handler' = [kind |-> "load", pc |-> "drop"]
    /\ chanClosed' = stopRoutineClosed
    /\ isRoutineRunning' = stopRoutineFlag
    /\ UNCHANGED <<dataVars, impVars, LndServices, stopChannel, launched, loop, resp>>

\* a return that leaves mu locked
RespondNoUnlock(msg) ==
    /\ resp' = [msg |-> msg, sawRunning |-> FALSE]
    /\ mu' = mu
    /\ handler' = NoHandler

\* a handler step that ends the request: the response, then the deferred mu.Unlock()
Respond(msg) ==
    /\ resp' = [msg |-> msg, sawRunning |-> FALSE]
    /\ mu' = FALSE
    /\ handler' = NoHandler

\* a handler step that goes on to the next call
Goto(pc) ==
    /\ handler' = [handler EXCEPT !.pc = pc]
    /\ UNCHANGED <<mu, resp>>

\* memgraph.DropDatabase: only a failed delete is an error, failed index drops are logged
DropDatabase(ok) ==
    /\ handler.pc = "drop"
    /\ IF ok THEN Goto(IF handler.kind = "reset" THEN "pull" ELSE "import")
             ELSE Respond(handler.kind \o ":500")
    /\ UNCHANGED <<dataVars, impVars, LndServices, isRoutineRunning, stopChannel, chanClosed,
                   launched, loop, waiting>>

\* lnd.PullGraph
PullGraph(ok) ==
    /\ handler.pc = "pull"
    /\ IF ok THEN Goto("import")
             ELSE Respond(handler.kind \o ":500")
    /\ UNCHANGED <<dataVars, impVars, LndServices, isRoutineRunning, stopChannel, chanClosed,
                   launched, loop, waiting>>

\* lnd.WriteGraphToMemgraph (reset) or lnd.WriteSnapshotToMemgraph (load)
Import(ok) ==
    /\ handler.pc = "import"
    /\ IF ok THEN Goto("setup")
             ELSE Respond(handler.kind \o ":500")
    /\ UNCHANGED <<dataVars, impVars, LndServices, isRoutineRunning, stopChannel, chanClosed,
                   launched, loop, waiting>>

\* memgraph.SetupAfterImport and the final response
SetupAfterImport(ok) ==
    /\ handler.pc = "setup"
    /\ Respond(handler.kind \o (IF ok THEN ":200" ELSE ":500"))
    /\ UNCHANGED <<dataVars, impVars, LndServices, isRoutineRunning, stopChannel, chanClosed,
                   launched, loop, waiting>>

\* a status handler that also calls stopRoutine
GetStatusHandlerStops(d) ==
    /\ d.kind = "status"
    /\ Lock(d)
    /\ resp' = [msg |-> IF isRoutineRunning THEN "status:true" ELSE "status:false",
                 sawRunning |-> FALSE]
    /\ chanClosed' = stopRoutineClosed
    /\ isRoutineRunning' = stopRoutineFlag
    /\ UNCHANGED <<dataVars, impVars, LndServices, mu, stopChannel, launched, loop, handler>>

\* mu.Lock(); c.JSON(isRoutineRunning); mu.Unlock()
GetStatusHandler(d) ==
    /\ d.kind = "status"
    /\ Lock(d)
    /\ resp' = [msg |-> IF isRoutineRunning THEN "status:true" ELSE "status:false",
                 sawRunning |-> FALSE]
    /\ UNCHANGED <<dataVars, impVars, LndServices, mu, isRoutineRunning, stopChannel, chanClosed,
                   launched, loop, handler>>

(* ------------------------ subscribeToGraphUpdates ---------------------- *)

\* LndServices.Client.SubscribeGraph returns
SubscribeGraph(l, ok) ==
    /\ loop[l].pc = "subscribe"
    /\ loop' = [loop EXCEPT ![l].pc = IF ok THEN "select" ELSE "failed"]
    /\ UNCHANGED <<dataVars, impVars, LndServices, mu, isRoutineRunning, stopChannel, chanClosed,
                   launched, waiting, handler, resp>>

\* the failure path without its isRoutineRunning = false
SubscribeFailedNoRevert(l) ==
    /\ loop[l].pc = "failed"
    /\ ~mu
    /\ loop' = [loop EXCEPT ![l].pc = "ret_fail"]
    /\ UNCHANGED <<dataVars, impVars, LndServices, mu, isRoutineRunning, stopChannel, chanClosed,
                   launched, waiting, handler, resp>>

\* err != nil: mu.Lock(); isRoutineRunning = false; mu.Unlock(); return
SubscribeFailed(l) ==
    /\ loop[l].pc = "failed"
    /\ ~mu
    /\ isRoutineRunning' = FALSE
    /\ loop' = [loop EXCEPT ![l].pc = "ret_fail"]
    /\ UNCHANGED <<dataVars, impVars, LndServices, mu, stopChannel, chanClosed, launched,
                   waiting, handler, resp>>

\* the loop is blocked in its select
AtSelect(l) == loop[l].pc \in {"select", "erred"}

\* case update := <-graphUpdates: ProcessUpdates is called on the message
SelectUpdate(l) ==
    /\ AtSelect(l)
    /\ loop' = [loop EXCEPT ![l].pc = "process"]
    /\ UNCHANGED <<dataVars, impVars, LndServices, mu, isRoutineRunning, stopChannel, chanClosed,
                   launched, waiting, handler, resp>>

\* ProcessUpdates issues the message's CommitQuery calls (errors are only
\* logged) and returns to the for loop
CommitQuery(l) ==
    /\ loop[l].pc = "process"
    /\ loop' = [loop EXCEPT ![l].pc = "select"]
    /\ UNCHANGED <<dataVars, impVars, LndServices, mu, isRoutineRunning, stopChannel, chanClosed,
                   launched, waiting, handler, resp>>

\* case err := <-errors: logged, the for loop goes round again
SelectError(l) ==
    /\ loop[l].pc = "select"
    /\ loop' = [loop EXCEPT ![l].pc = "erred"]
    /\ UNCHANGED <<dataVars, impVars, LndServices, mu, isRoutineRunning, stopChannel, chanClosed,
                   launched, waiting, handler, resp>>

\* a stop case that goes round the for loop again instead of returning
SelectStopContinues(l) ==
    /\ AtSelect(l)
    /\ loop[l].stop \in chanClosed
    /\ loop' = [loop EXCEPT ![l].pc = "select"]
    /\ UNCHANGED <<dataVars, impVars, LndServices, mu, isRoutineRunning, stopChannel, chanClosed,
                   launched, waiting, handler, resp>>

\* case <-stop: return
SelectStop(l) ==
    /\ AtSelect(l)
    /\ loop[l].stop \in chanClosed
    /\ loop' = [loop EXCEPT ![l].pc = "ret_stop"]
    /\ UNCHANGED <<dataVars, impVars, LndServices, mu, isRoutineRunning, stopChannel, chanClosed,
                   launched, waiting, handler, resp>>

Next ==
    \/ \E k \in Kinds : Arrive(k, MaxReq)
    \/ \E d \in Descr : ToggleUpdatesHandler(d)
    \/ \E d \in Descr : ResetGraphHandler(d)
    \/ \E d \in Descr : LoadLocalSnapshot(d)
    \/ \E ok \in BOOLEAN : DropDatabase(ok)
    \/ \E ok \in BOOLEAN : PullGraph(ok)
    \/ \E ok \in BOOLEAN : Import(ok)
    \/ \E ok \in BOOLEAN : SetupAfterImport(ok)
    \/ \E d \in Descr : GetStatusHandler(d)
    \/ \E l \in Loops, ok \in BOOLEAN : SubscribeGraph(l, ok)
    \/ \E l \in Loops : SubscribeFailed(l)
    \/ \E l \in Loops : SelectUpdate(l)
    \/ \E l \in Loops : CommitQuery(l)
    \/ \E l \in Loops : SelectError(l)
    \/ \E l \in Loops : SelectStop(l)

Spec == Init /\ [][Next]_vars

\* the same steps with control requests arriving one at a time
LiveNext ==
    \/ \E k \in Kinds : Arrive(k, 1)
    \/ \E d \in Descr : ToggleUpdatesHandler(d)
    \/ \E d \in Descr : ResetGraphHandler(d)
    \/ \E d \in Descr : LoadLocalSnapshot(d)
    \/ \E ok \in BOOLEAN : DropDatabase(ok)
    \/ \E ok \in BOOLEAN : PullGraph(ok)
    \/ \E ok \in BOOLEAN : Import(ok)
    \/ \E ok \in BOOLEAN : SetupAfterImport(ok)
    \/ \E d \in Descr : GetStatusHandler(d)
    \/ \E l \in Loops, ok \in BOOLEAN : SubscribeGraph(l, ok)
    \/ \E l \in Loops : SubscribeFailed(l)
    \/ \E l \in Loops : SelectUpdate(l)
    \/ \E l \in Loops : CommitQuery(l)
    \/ \E l \in Loops : SelectError(l)
    \/ \E l \in Loops : SelectStop(l)

\* A handler that holds the lock runs on to its return, and a goroutine blocked
\* in mu.Lock() gets the lock in the end (sync.Mutex hands over to a starving
\* waiter).
LiveSpec ==
    /\ Init /\ [][LiveNext]_vars
    /\ WF_vars(\E ok \in BOOLEAN : \/ DropDatabase(ok) \/ PullGraph(ok)
                                  \/ Import(ok) \/ SetupAfterImport(ok))
    /\ \A l \in Loops : SF_vars(SubscribeFailed(l))

\* The scheduling of the handlers as in LiveSpec, and of the loop goroutine:
\* its calls (SubscribeGraph, the store writes of ProcessUpdates) return, and
\* its blocking operations get their turn: mu.Lock() on the failure path, and
\* the stop case of a select in which it is ready again and again (Go picks
\* uniformly among the ready cases).
LoopSpec ==
    /\ Init /\ [][LiveNext]_vars
    /\ WF_vars(\E ok \in BOOLEAN : \/ DropDatabase(ok) \/ PullGraph(ok)
                                  \/ Import(ok) \/ SetupAfterImport(ok))
    /\ \A l \in Loops :
         /\ WF_vars((\E ok \in BOOLEAN : SubscribeGraph(l, ok)) \/ CommitQuery(l))
         /\ SF_vars(SubscribeFailed(l) \/ SelectStop(l))

\* the handler of a waiting request d gets the lock and runs
HandlerOf(d) ==
    \/ ToggleUpdatesHandler(d) \/ ResetGraphHandler(d)
    \/ LoadLocalSnapshot(d) \/ GetStatusHandler(d)

\* the steps that take, hold or wait for mu, with concurrent requests: those of
\* Next but for the loop's select, whose cases neither read nor write what the
\* handlers and the failure path use
LockNext ==
    \/ \E k \in Kinds : Arrive(k, MaxReq)
    \/ \E d \in Descr : HandlerOf(d)
    \/ \E ok \in BOOLEAN : DropDatabase(ok)
    \/ \E ok \in BOOLEAN : PullGraph(ok)
    \/ \E ok \in BOOLEAN : Import(ok)
    \/ \E ok \in BOOLEAN : SetupAfterImport(ok)
    \/ \E l \in Loops, ok \in BOOLEAN : SubscribeGraph(l, ok)
    \/ \E l \in Loops : SubscribeFailed(l)
    \/ \E l \in Loops : SelectStop(l)

\* A handler that holds the lock runs on to its return (the store and upstream
\* calls return), and every goroutine blocked in mu.Lock(), a handler's or a
\* loop's on its failure path, gets the lock in the end (sync.Mutex hands the
\* lock to a starving waiter).
FairSpec ==
    /\ Init /\ [][LockNext]_vars
    /\ WF_vars(\E ok \in BOOLEAN : \/ DropDatabase(ok) \/ PullGraph(ok)
                                  \/ Import(ok) \/ SetupAfterImport(ok))
    /\ \A d \in Descr : SF_vars(HandlerOf(d))
    /\ \A l \in Loops : SF_vars(SubscribeFailed(l))

(* ------------------------------ properties ---------------------------- *)

\* launched and not yet returned
Alive(l) == loop[l].pc \notin {"none", "ret_stop", "ret_fail"}

\* close() has been called on the channel the loop was handed
Cancelled(l) == loop[l].stop \in chanClosed

\* SubscribeGraph has returned without error for the loop
Subscribed(l) == loop[l].pc \in {"select", "erred", "process", "ret_stop"}

\* a reset or load handler has called stopRoutine and is at or past its call
\* of DropDatabase
PastStop == handler.pc \in {"drop", "pull", "import", "setup"}

\* a reset or load handler has dropped the database and has not returned yet
InDropReload == handler.pc \in {"pull", "import", "setup"}

\* C1: at most one live-update loop is alive (launched and not yet returned)
\* at any time.
C1_AtMostOneLoopAlive == Cardinality({l \in Loops : Alive(l)}) <= 1

\* C2: whenever the lifecycle lock is free, isRoutineRunning is true exactly
\* when some launched loop has not exited and has no closed cancellation signal.
C2_FlagMatchesLoop ==
    ~mu => (isRoutineRunning <=> \E l \in Loops : Alive(l) /\ ~Cancelled(l))

\* C3: a reset or load-snapshot request has closed the cancellation signal of
\* the loop and set the flag to Stopped before it invokes DropDatabase, and a
\* status query that is the next control operation after it reports Stopped.
C3_StoppedBeforeDrop ==
    /\ [](PastStop =>
            /\ ~isRoutineRunning
            /\ \A l \in Loops : Alive(l) => Cancelled(l))
    /\ [][(/\ resp.msg \in {"reset:200", "reset:500", "load:200", "load:500"}
           /\ resp'.msg \in {"status:true", "status:false"})
          => resp'.msg = "status:false"]_vars

\* C4: from the start of a request's DropDatabase until the request has
\* finished its drop-and-reload, no loop issues a write (CommitQuery).
C4_NoWriteDuringDropReload ==
    [][\A l \in Loops :
         (loop[l].pc = "process" /\ loop'[l].pc # "process") => ~InDropReload]_vars

\* C8: a start request answers "Routine started." only after SubscribeGraph has
\* succeeded for the loop it launched.
C8_StartedOnlyAfterSubscribed ==
    resp.msg = "toggle:started" => Subscribed(launched)

\* the step in which the handler of a toggle request runs (it is atomic under
\* mu); saw tells whether the request was issued while the state was Running
ToggleStep(saw) ==
    LET d == [kind |-> "toggle", sawRunning |-> saw]
    IN waiting'[d] = waiting[d] - 1

\* C5 as claimed: a start request (a toggle issued while the state is Stopped)
\* leaves the state Running and, when it finds a loop already running, is a
\* no-op: it launches no second loop and stops none.
C5_SecondStartIsNoOp ==
    [][(ToggleStep(FALSE) /\ LndServices)
         => /\ isRoutineRunning'
            /\ chanClosed' = chanClosed
            /\ (isRoutineRunning => launched' = launched)]_vars

\* C5 as amended: a toggle issued while Stopped acts on the flag it finds once
\* it holds the lock. Finding Stopped it launches exactly one loop on a fresh
\* open channel and sets Running; finding Running (the loop of the other
\* request) it closes that loop's channel, sets Stopped and launches nothing.
C5_SecondStartToggles ==
    [][(ToggleStep(FALSE) /\ LndServices)
         => IF isRoutineRunning
              THEN /\ ~isRoutineRunning'
                   /\ chanClosed' = chanClosed \cup {stopChannel}
                   /\ UNCHANGED <<launched, loop, stopChannel>>
                   /\ resp'.msg = "toggle:stopped"
              ELSE /\ isRoutineRunning'
                   /\ launched' = launched + 1
                   /\ stopChannel' \notin chanClosed'
                   /\ \A l \in 1..launched : loop[l].stop # stopChannel'
                   /\ loop' = [loop EXCEPT ![launched'] =
                                 [pc |-> "subscribe", stop |-> stopChannel']]
                   /\ chanClosed' = chanClosed
                   /\ resp'.msg = "toggle:started"]_vars

\* two toggles were issued while Stopped; the second one handled found the
\* first one's loop running and stopped it
C5_Witness ==
    /\ resp = [msg |-> "toggle:stopped", sawRunning |-> FALSE]
    /\ launched = 1 /\ chanClosed = {1} /\ ~isRoutineRunning

\* the step in which a waiting request of kind k gets the lock
Handled(k) == \E d \in Descr : d.kind = k /\ waiting'[d] = waiting[d] - 1

\* C6: with no upstream configured (LndServices nil) a toggle or reset request
\* is refused with an error and changes nothing: flag, channel, loops and lock
\* keep their values and the handler returns before any store operation.
C6_RefusedWithoutLND ==
    /\ [](~LndServices =>
            /\ ~isRoutineRunning /\ stopChannel = 0 /\ launched = 0 /\ chanClosed = {}
            /\ handler.kind # "reset")
    /\ [][\A k \in {"toggle", "reset"} :
            (~LndServices /\ Handled(k))
            => /\ UNCHANGED <<mu, isRoutineRunning, stopChannel, chanClosed, launched, loop>>
               /\ handler' = NoHandler
               /\ resp'.msg = k \o ":400"]_vars

\* with no upstream configured a toggle or a reset request was refused
C6_Witness ==
    /\ ~LndServices /\ ~mu /\ launched = 0
    /\ resp.msg \in {"reset:400", "toggle:400"}

\* C7: a loop whose subscription failed issues no write (it never reaches
\* ProcessUpdates), eventually takes the lock, sets the state to Stopped and
\* exits; and every later start launches a new loop on a new, open channel.
C7_SubscribeFailureReverts ==
    /\ [][\A l \in Loops :
            /\ loop[l].pc = "failed" => loop'[l].pc \in {"failed", "ret_fail"}
            /\ loop[l].pc = "ret_fail" => loop'[l] = loop[l]
            /\ (loop[l].pc = "failed" /\ loop'[l].pc = "ret_fail") => ~isRoutineRunning'
            /\ (loop[l].pc = "none" /\ loop'[l].pc # "none")
                 => /\ loop'[l].pc = "subscribe"
                    /\ loop'[l].stop = stopChannel'
                    /\ loop'[l].stop \notin chanClosed'
                    /\ \A k \in Loops \ {l} : loop'[k].stop # loop'[l].stop]_vars
    /\ \A l \in Loops :
         (loop[l].pc = "failed") ~> (loop[l].pc = "ret_fail" /\ ~isRoutineRunning)

\* the first loop failed to subscribe and returned, no stop intervened, and a
\* later start launched the second loop on a new channel
C7_Witness ==
    /\ loop[1].pc = "ret_fail" /\ chanClosed = {}
    /\ launched = 2 /\ loop[2].stop # loop[1].stop /\ isRoutineRunning

(* ----------------------------- lnd: ID codec --------------------------- *)

\* A uint64 is the four 16-bit words <<w3, w2, w1, w0>>, most significant first.
WordSamples == {0, 1, 255, 256, 65535}

\* the channel ids the codec is run on; the last one is 0x0001F400000A0001
SampleIds ==
    {<<a, b, c, d>> : a \in WordSamples, b \in WordSamples, c \in WordSamples, d \in WordSamples}
      \cup {<<1, 62464, 10, 1>>}

InitCodec ==
    /\ LndServices = TRUE
    /\ mu = FALSE
    /\ isRoutineRunning = FALSE
    /\ stopChannel = 0
    /\ chanClosed = {}
    /\ launched = 0
    /\ loop = [l \in Loops |-> NoLoop]
    /\ waiting = [d \in Descr |-> 0]
    /\ handler = NoHandler
    /\ resp = NoResp
    /\ graph = [Nodes |-> <<>>, Edges |-> <<>>]
    /\ ipc = "idle"
    /\ idx = 0
    /\ relations = <<>>
    /\ runs = <<>>
    /\ ierr = "none"
    /\ cid \in SampleIds
    /\ cstr = <<>>
    /\ store = [nodes |-> <<>>, edges |-> {}]
    /\ imported = <<>>
    /\ held = [nodes |-> <<>>, edges |-> {}]
    /\ InitRoutes

\* channelID >> 48, a shift that is not the one of the code
blockHeightShift48(c) == c[1]

\* blockHeight := channelID >> 40
blockHeight(c) == c[1] * 256 + (c[2] \div 256)

\* blockIndex := (channelID >> 16) & ((1 << 24) - 1)
blockIndex(c) == (c[2] % 256) * 65536 + c[3]

\* outputIndex := channelID & ((1 << 16) - 1)
outputIndex(c) == c[4]

DigitChars == <<"0", "1", "2", "3", "4", "5", "6", "7", "8", "9">>

\* the verb %d of fmt.Sprintf on an unsigned value: its decimal digits
RECURSIVE SprintfD(_)
SprintfD(n) ==
    IF n < 10 THEN <<DigitChars[n + 1]>>
    ELSE SprintfD(n \div 10) \o <<DigitChars[(n % 10) + 1]>>

\* fmt.Sprintf("%d:%d:%d", blockHeight, blockIndex, outputIndex)
convertChannelIDToString(c) ==
    SprintfD(blockHeight(c)) \o <<":">> \o SprintfD(blockIndex(c)) \o <<":">>
      \o SprintfD(outputIndex(c))

\* one call of convertChannelIDToString
Convert ==
    /\ cstr = <<>>
    /\ cstr' = convertChannelIDToString(cid)
    /\ UNCHANGED <<lifeVars, impVars, cid, store, imported, held, routesVars>>

\* the caller drops the string
Forget ==
    /\ cstr # <<>>
    /\ cstr' = <<>>
    /\ UNCHANGED <<lifeVars, impVars, cid, store, imported, held, routesVars>>

NextCodec == Convert \/ Forget

SpecCodec == InitCodec /\ [][NextCodec]_vars

(* ----------------------- properties of the ID codec -------------------- *)

\* the position of the k-th ':' of s (0 when there is none)
RECURSIVE ColonAt(_, _, _)
ColonAt(s, k, from) ==
    IF from > Len(s) THEN 0
    ELSE IF s[from] = ":"
      THEN (IF k = 1 THEN from ELSE ColonAt(s, k - 1, from + 1))
      ELSE ColonAt(s, k, from + 1)

\* the value of a digit character
DigitValue(ch) == (CHOOSE k \in 1..10 : DigitChars[k] = ch) - 1

\* the number a sequence of decimal digits denotes
RECURSIVE Decimal(_)
Decimal(s) ==
    IF Len(s) = 0 THEN 0
    ELSE 10 * Decimal(SubSeq(s, 1, Len(s) - 1)) + DigitValue(s[Len(s)])

\* the three numbers of a string "h:i:o"
Fields(s) ==
    LET p == ColonAt(s, 1, 1)
        q == ColonAt(s, 2, 1)
    IN [h |-> Decimal(SubSeq(s, 1, p - 1)),
        i |-> Decimal(SubSeq(s, p + 1, q - 1)),
        o |-> Decimal(SubSeq(s, q + 1, Len(s)))]

\* h * 2^40 + i * 2^16 + o as four 16-bit words, for h, i < 2^24 and o < 2^16
Compose(h, i, o) ==
    <<h \div 256, (h % 256) * 256 + (i \div 65536), i % 65536, o>>

\* C18: the string returned for c is "h:i:o" with h < 2^24, i < 2^24 and
\* o < 2^16 in decimal, h * 2^40 + i * 2^16 + o = c, distinct ids give distinct
\* strings, and 0x0001F400000A0001 gives "500:10:1".
C18_CodecDecomposes ==
    cstr # <<>> =>
      LET f == Fields(cstr)
      IN /\ Cardinality({k \in 1..Len(cstr) : cstr[k] = ":"}) = 2
         /\ \A k \in 1..Len(cstr) : cstr[k] = ":" \/ \E j \in 1..10 : DigitChars[j] = cstr[k]
         /\ f.h < 16777216 /\ f.i < 16777216 /\ f.o < 65536
         /\ f.h = cid[1] * 256 + (cid[2] \div 256)
         /\ Compose(f.h, f.i, f.o) = cid
         /\ \A d \in SampleIds : d # cid => convertChannelIDToString(d) # cstr
         /\ (cid = <<1, 62464, 10, 1>> => cstr = <<"5", "0", "0", ":", "1", "0", ":", "1">>)

\* the example id has been converted
C18_Witness == cid = <<1, 62464, 10, 1>> /\ Len(cstr) = 8

(* ------------------- lnd: the bulk live-pull import -------------------- *)

\* records the model feeds the batched writers with
MaxRecords == 201
batchSize == 100
Patterns == {"both", "node1", "node2", "neither", "mixed"}

\* the k-th lndclient.Node and lndclient.ChannelEdge of the pulled graph
NodeAt(k) == [PubKey |-> k, Alias |-> k]

EdgeAt(k, n, pat) ==
    [ChannelID |-> <<0, 256 * (k % 256), k \div 128, k>>, Node1 |-> k, Node2 |-> (k % n) + 1, Capacity |-> 1,
     Node1Policy |-> (pat \in {"both", "node1"} \/ (pat = "mixed" /\ k % 4 \in {0, 1})),
     Node2Policy |-> (pat \in {"both", "node2"} \/ (pat = "mixed" /\ k % 4 \in {0, 2}))]

GraphOf(n, pat) ==
    [Nodes |-> [k \in 1..n |-> NodeAt(k)], Edges |-> [k \in 1..n |-> EdgeAt(k, n, pat)]]

InitImport ==
    /\ LndServices = TRUE
    /\ mu = FALSE
    /\ isRoutineRunning = FALSE
    /\ stopChannel = 0
    /\ chanClosed = {}
    /\ launched = 0
    /\ loop = [l \in Loops |-> NoLoop]
    /\ waiting = [d \in Descr |-> 0]
    /\ handler = NoHandler
    /\ resp = NoResp
    /\ \E n \in 0..MaxRecords, pat \in Patterns : graph = GraphOf(n, pat)
    /\ ipc = "nodeidx"
    /\ idx = 0
    /\ relations = <<>>
    /\ runs = <<>>
    /\ ierr = "none"
    /\ DataIdle

Min(a, b) == IF a < b THEN a ELSE b

\* s[i:end] of Go: the elements at 0-based positions i .. end-1
Slice(s, i, end) == SubSeq(s, i + 1, end)

\* the rows of one loop iteration: recs[i:min(i+batchSize, len(recs))]
batchOf(recs, i) == Slice(recs, i, Min(i + batchSize, Len(recs)))

\* the map appended to records for one node
nodeRecord(node) == [pubKey |-> node.PubKey, alias |-> node.Alias]

\* strings.Replace(s, old, new, -1) for one-character old and new
Replace(s, old, new) == [k \in 1..Len(s) |-> IF s[k] = old THEN new ELSE s[k]]

\* the chan_id of a relation: the id rendered with 'x' as the separator
chanIDx(id) == Replace(convertChannelIDToString(id), ":", "x")

\* the maps appended to relations for one edge: one per policy that is not nil
edgeRelations(edge) ==
    (IF edge.Node1Policy
       THEN <<[from |-> edge.Node1, to |-> edge.Node2, chan_id |-> chanIDx(edge.ChannelID),
               capacity |-> edge.Capacity, policy |-> 1]>>
       ELSE <<>>)
    \o
    (IF edge.Node2Policy
       THEN <<[from |-> edge.Node2, to |-> edge.Node1, chan_id |-> chanIDx(edge.ChannelID),
               capacity |-> edge.Capacity, policy |-> 2]>>
       ELSE <<>>)

RECURSIVE flatten(_, _)
flatten(edges, k) ==
    IF k > Len(edges) THEN <<>> ELSE edgeRelations(edges[k]) \o flatten(edges, k + 1)

\* WriteGraphToMemgraph returns the error of the failed call
ReturnErr(q) ==
    /\ ipc' = "done"
    /\ ierr' = q
    /\ UNCHANGED <<idx, relations>>

\* writeChannelsToMemgraph begins: relations are flattened, then the batch loop at i = 0
EnterChannels ==
    /\ relations' = flatten(graph.Edges, 1)
    /\ idx' = 0
    /\ IF Len(relations') = 0
         THEN ipc' = "done" /\ ierr' = "nil"
         ELSE ipc' = "chans" /\ UNCHANGED ierr

\* writeNodesToMemgraph begins: the batch loop at i = 0
EnterNodes ==
    IF Len(graph.Nodes) = 0
      THEN EnterChannels
      ELSE ipc' = "nodes" /\ idx' = 0 /\ UNCHANGED <<relations, ierr>>

createNodeIndex(ok) ==
    /\ ipc = "nodeidx"
    /\ runs' = Append(runs, [q |-> "nodeidx", rows |-> <<>>, ok |-> ok])
    /\ IF ok THEN ipc' = "chanidx" /\ UNCHANGED <<idx, relations, ierr>>
             ELSE ReturnErr("nodeidx")
    /\ UNCHANGED <<dataVars, lifeVars, graph>>

createIndexForChannels(ok) ==
    /\ ipc = "chanidx"
    /\ runs' = Append(runs, [q |-> "chanidx", rows |-> <<>>, ok |-> ok])
    /\ IF ok THEN EnterNodes ELSE ReturnErr("chanidx")
    /\ UNCHANGED <<dataVars, lifeVars, graph>>

\* one iteration of the batch loop of writeNodesToMemgraph
writeNodesToMemgraph(ok) ==
    /\ ipc = "nodes"
    /\ LET batch == batchOf(graph.Nodes, idx)
           records == [k \in 1..Len(batch) |-> nodeRecord(batch[k])]
       IN runs' = Append(runs, [q |-> "nodes", rows |-> records, ok |-> ok])
    /\ IF ~ok THEN ReturnErr("nodes")
       ELSE IF idx + batchSize < Len(graph.Nodes)
         THEN idx' = idx + batchSize /\ UNCHANGED <<ipc, relations, ierr>>
         ELSE EnterChannels
    /\ UNCHANGED <<dataVars, lifeVars, graph>>

\* one iteration of the batch loop of writeChannelsToMemgraph
writeChannelsToMemgraph(ok) ==
    /\ ipc = "chans"
    /\ runs' = Append(runs, [q |-> "chans", rows |-> batchOf(relations, idx), ok |-> ok])
    /\ IF ~ok THEN ReturnErr("chans")
       ELSE IF idx + batchSize < Len(relations)
         THEN idx' = idx + batchSize /\ UNCHANGED <<ipc, relations, ierr>>
         ELSE ipc' = "done" /\ ierr' = "nil" /\ UNCHANGED <<idx, relations>>
    /\ UNCHANGED <<dataVars, lifeVars, graph>>

NextImport ==
    \/ \E ok \in BOOLEAN : createNodeIndex(ok)
    \/ \E ok \in BOOLEAN : createIndexForChannels(ok)
    \/ \E ok \in BOOLEAN : writeNodesToMemgraph(ok)
    \/ \E ok \in BOOLEAN : writeChannelsToMemgraph(ok)

SpecImport == InitImport /\ [][NextImport]_vars

(* ----------------------- properties of the import ---------------------- *)

\* the rows of the session.Run calls issued with query q, in order of issue
RowsOf(q) ==
    LET sel == SelectSeq(runs, LAMBDA x : x.q = q)
    IN [k \in 1..Len(sel) |-> sel[k].rows]

CeilDiv(n, d) == (n + d - 1) \div d

\* recs cut into consecutive groups of 100, the last one possibly shorter
Partition(recs) ==
    [b \in 1..CeilDiv(Len(recs), 100) |->
       [k \in 1..(Min(100 * b, Len(recs)) - 100 * (b - 1)) |-> recs[100 * (b - 1) + k]]]

NodeRecords == [k \in 1..Len(graph.Nodes) |-> nodeRecord(graph.Nodes[k])]

\* both index creations succeeded, so writeNodesToMemgraph was called
NodesWriterCalled ==
    /\ Len(runs) >= 2
    /\ runs[1].ok /\ runs[2].ok

\* writeNodesToMemgraph returned nil, so writeChannelsToMemgraph was called
ChannelsWriterCalled == ipc = "chans" \/ (ipc = "done" /\ ierr \in {"nil", "chans"})

\* C9: each batched writer, once it has returned, has issued exactly
\* ceil(n/100) writes for its n records, the i-th carrying the records at
\* positions 100*i .. min(100*(i+1), n) in their original order.
C9_BatchesPartitionRecords ==
    /\ (NodesWriterCalled /\ ipc \in {"chans", "done"})
         => RowsOf("nodes") = Partition(NodeRecords)
    /\ (ChannelsWriterCalled /\ ipc = "done")
         => RowsOf("chans") = Partition(flatten(graph.Edges, 1))

\* C10: in the live-pull import a failed batch write aborts nothing: when
\* WriteGraphToMemgraph has returned after creating its indexes, every node
\* batch and every channel batch has been attempted.
C10_FailedBatchDoesNotAbort ==
    (ipc = "done" /\ NodesWriterCalled)
      => /\ Len(RowsOf("nodes")) = CeilDiv(Len(graph.Nodes), 100)
         /\ Len(RowsOf("chans")) = CeilDiv(Len(flatten(graph.Edges, 1)), 100)

(* ------------------- further properties of the controller -------------- *)

\* C20: a status query changes nothing: flag, channel, closed channels, loops,
\* lock, the handler in progress and the store-side variables keep their
\* values, and the response carries the value the flag has in that step.
C20_StatusIsPureRead ==
    [][Handled("status")
         => /\ UNCHANGED <<LndServices, mu, isRoutineRunning, stopChannel, chanClosed,
                           launched, loop, handler, impVars, dataVars>>
            /\ resp'.msg = (IF isRoutineRunning THEN "status:true" ELSE "status:false")
            /\ resp'.msg = (IF isRoutineRunning' THEN "status:true" ELSE "status:false")]_vars

\* a status query answered Running while a loop is alive and un-cancelled
C20_Witness ==
    /\ resp.msg = "status:true" /\ isRoutineRunning
    /\ \E l \in Loops : Alive(l) /\ ~Cancelled(l)

(* -------------------- lnd: the snapshot-file import -------------------- *)

\* node and channel records of the snapshot files the model imports
MaxSnapshotRecords == 3

\* the k-th Node and ChannelEdge of the parsed document
SnapNodeAt(k) == [Pub_Key |-> k, Alias |-> k, Wumbo |-> (k % 2 = 0)]

\* a RoutingPolicy: one the file holds, or the zero value of an omitted one
SnapPolicy(present) == [MaxHtlcMsat |-> IF present THEN "1000" ELSE ""]

SnapEdgeAt(k, n, pat) ==
    [ChannelId |-> <<0, 256 * k, 0, k>>, Capacity |-> "1",
     Node1_Pub |-> k, Node2_Pub |-> (k % n) + 1,
     Node1Policy |-> SnapPolicy(pat \in {"both", "node1"} \/ (pat = "mixed" /\ k % 4 \in {0, 1})),
     Node2Policy |-> SnapPolicy(pat \in {"both", "node2"} \/ (pat = "mixed" /\ k % 4 \in {0, 2}))]

\* what can be wrong with ./describegraph.json
FileStates == {"ok", "missing", "unreadable", "corrupt"}

\* the document of the file and the state of the file
SnapshotOf(n, pat, file) ==
    [Nodes |-> [k \in 1..n |-> SnapNodeAt(k)], Edges |-> [k \in 1..n |-> SnapEdgeAt(k, n, pat)],
     File |-> file]

\* LoadLocalSnapshot holds mu, has dropped the database and calls
\* WriteSnapshotToMemgraph on the file
InitSnapshot ==
    /\ LndServices \in BOOLEAN
    /\ mu = TRUE
    /\ isRoutineRunning = FALSE
    /\ stopChannel = 0
    /\ chanClosed = {}
    /\ launched = 0
    /\ loop = [l \in Loops |-> NoLoop]
    /\ waiting = [d \in Descr |-> 0]
    /\ handler = [kind |-> "load", pc |-> "import"]
    /\ resp = NoResp
    /\ \E n \in 0..MaxSnapshotRecords, pat \in Patterns, file \in FileStates :
         graph = SnapshotOf(n, pat, file)
    /\ ipc = "open"
    /\ idx = 0
    /\ relations = <<>>
    /\ runs = <<>>
    /\ ierr = "none"
    /\ DataIdle

\* os.Open: failure returns before anything else
OpenSnapshot ==
    /\ ipc = "open"
    /\ IF graph.File # "missing" THEN ipc' = "read" /\ UNCHANGED ierr
             ELSE ipc' = "snapdone" /\ ierr' = "open"
    /\ UNCHANGED <<dataVars, lifeVars, graph, idx, relations, runs>>

\* io.ReadAll
ReadSnapshot ==
    /\ ipc = "read"
    /\ IF graph.File # "unreadable" THEN ipc' = "parse" /\ UNCHANGED ierr
             ELSE ipc' = "snapdone" /\ ierr' = "read"
    /\ UNCHANGED <<dataVars, lifeVars, graph, idx, relations, runs>>

\* json.Unmarshal whose error is not looked at
UnmarshalSnapshotUnchecked ==
    /\ ipc = "parse"
    /\ ipc' = "snapnodeidx"
    /\ UNCHANGED <<dataVars, lifeVars, graph, idx, relations, runs, ierr>>

\* json.Unmarshal
UnmarshalSnapshot ==
    /\ ipc = "parse"
    /\ IF graph.File # "corrupt" THEN ipc' = "snapnodeidx" /\ UNCHANGED ierr
             ELSE ipc' = "snapdone" /\ ierr' = "parse"
    /\ UNCHANGED <<dataVars, lifeVars, graph, idx, relations, runs>>

\* writeSnapshotChannelsToMemgraph begins: the range loop at the first edge
EnterSnapshotChannels ==
    /\ idx' = 0
    /\ IF Len(graph.Edges) = 0
         THEN ipc' = "snapdone" /\ ierr' = "nil"
         ELSE ipc' = "snapchans" /\ UNCHANGED ierr

\* writeSnapshotNodesToMemgraph begins: the range loop at the first node
EnterSnapshotNodes ==
    IF Len(graph.Nodes) = 0
      THEN EnterSnapshotChannels
      ELSE ipc' = "snapnodes" /\ idx' = 0 /\ UNCHANGED ierr

\* createNodeIndex called by WriteSnapshotToMemgraph
snapshotCreateNodeIndex(ok) ==
    /\ ipc = "snapnodeidx"
    /\ runs' = Append(runs, [q |-> "nodeidx", rows |-> <<>>, ok |-> ok])
    /\ IF ok THEN ipc' = "snapchanidx" /\ UNCHANGED <<idx, ierr>>
             ELSE ipc' = "snapdone" /\ ierr' = "nodeidx" /\ UNCHANGED idx
    /\ UNCHANGED <<dataVars, lifeVars, graph, relations>>

\* createIndexForChannels called by WriteSnapshotToMemgraph
snapshotCreateIndexForChannels(ok) ==
    /\ ipc = "snapchanidx"
    /\ runs' = Append(runs, [q |-> "chanidx", rows |-> <<>>, ok |-> ok])
    /\ IF ok THEN EnterSnapshotNodes
             ELSE ipc' = "snapdone" /\ ierr' = "chanidx" /\ UNCHANGED idx
    /\ UNCHANGED <<dataVars, lifeVars, graph, relations>>

\* the params of the node query
snapshotNodeParams(node) ==
    [pubKey |-> node.Pub_Key, alias |-> node.Alias, is_wumbo |-> node.Wumbo]

\* one iteration of the range loop of writeSnapshotNodesToMemgraph: a failed
\* write is logged
writeSnapshotNodesToMemgraph(ok) ==
    /\ ipc = "snapnodes"
    /\ runs' = Append(runs, [q |-> "snapnode",
                             rows |-> <<snapshotNodeParams(graph.Nodes[idx + 1])>>,
                             ok |-> ok])
    /\ IF idx + 1 < Len(graph.Nodes)
         THEN idx' = idx + 1 /\ UNCHANGED <<ipc, ierr>>
         ELSE EnterSnapshotChannels
    /\ UNCHANGED <<dataVars, lifeVars, graph, relations>>

\* writeChannelPolicyToMemgraphSnapshot: the session.Run calls it issues
writeChannelPolicyToMemgraphSnapshot(edge, policy, node1PubKey, node2PubKey, chanID, tag, ok) ==
    IF policy.MaxHtlcMsat # ""
      THEN <<[q |-> "snapedge",
              rows |-> <<[from |-> node1PubKey, to |-> node2PubKey, chan_id |-> chanID,
                          capacity |-> edge.Capacity, policy |-> tag]>>,
              ok |-> ok]>>
      ELSE <<>>

\* one iteration of the range loop of writeSnapshotChannelsToMemgraph
writeSnapshotChannelsToMemgraph(ok1, ok2) ==
    /\ ipc = "snapchans"
    /\ LET edge == graph.Edges[idx + 1]
           chanID == convertChannelIDToString(edge.ChannelId)
       IN runs' = runs
            \o writeChannelPolicyToMemgraphSnapshot(edge, edge.Node1Policy, edge.Node1_Pub,
                                                    edge.Node2_Pub, chanID, 1, ok1)
            \o writeChannelPolicyToMemgraphSnapshot(edge, edge.Node2Policy, edge.Node2_Pub,
                                                    edge.Node1_Pub, chanID, 2, ok2)
    /\ IF idx + 1 < Len(graph.Edges)
         THEN idx' = idx + 1 /\ UNCHANGED <<ipc, ierr>>
         ELSE ipc' = "snapdone" /\ ierr' = "nil" /\ UNCHANGED idx
    /\ UNCHANGED <<dataVars, lifeVars, graph, relations>>

\* WriteSnapshotToMemgraph has returned to LoadLocalSnapshot
WriteSnapshotReturns ==
    /\ ipc = "snapdone"
    /\ Import(ierr = "nil")

NextSnapshot ==
    \/ OpenSnapshot
    \/ ReadSnapshot
    \/ UnmarshalSnapshot
    \/ \E ok \in BOOLEAN : snapshotCreateNodeIndex(ok)
    \/ \E ok \in BOOLEAN : snapshotCreateIndexForChannels(ok)
    \/ \E ok \in BOOLEAN : writeSnapshotNodesToMemgraph(ok)
    \/ \E ok1 \in BOOLEAN, ok2 \in BOOLEAN : writeSnapshotChannelsToMemgraph(ok1, ok2)
    \/ WriteSnapshotReturns

SpecSnapshot == InitSnapshot /\ [][NextSnapshot]_vars

(* ------------------ properties of the two import paths ----------------- *)

\* the rows of all session.Run calls issued with query q, in order of issue
RECURSIVE IssuedRows(_, _)
IssuedRows(q, k) ==
    IF k > Len(runs) THEN <<>>
    ELSE (IF runs[k].q = q THEN runs[k].rows ELSE <<>>) \o IssuedRows(q, k + 1)

\* the directed edge writes issued for one channel id
EdgeWrites(q, chanID) == SelectSeq(IssuedRows(q, 1), LAMBDA row : row.chan_id = chanID)

\* the edge writes are exactly one per present policy, node1's policy as
\* n1 -> n2 and node2's as n2 -> n1, with the channel's id and capacity
ExpandsDirections(w, has1, has2, n1, n2, chanID, capacity) ==
    /\ Len(w) = (IF has1 THEN 1 ELSE 0) + (IF has2 THEN 1 ELSE 0)
    /\ \A j \in 1..Len(w) : w[j].chan_id = chanID /\ w[j].capacity = capacity
    /\ has1 <=> \E j \in 1..Len(w) : w[j].policy = 1 /\ w[j].from = n1 /\ w[j].to = n2
    /\ has2 <=> \E j \in 1..Len(w) : w[j].policy = 2 /\ w[j].from = n2 /\ w[j].to = n1

\* the live-pull half of C12: writeChannelsToMemgraph was called and
\* WriteGraphToMemgraph has returned
C12_LivePullExpands ==
    (ipc = "done" /\ ChannelsWriterCalled)
      => \A k \in 1..Len(graph.Edges) :
           LET edge == graph.Edges[k]
           IN ExpandsDirections(EdgeWrites("chans", chanIDx(edge.ChannelID)),
                                edge.Node1Policy, edge.Node2Policy,
                                edge.Node1, edge.Node2,
                                chanIDx(edge.ChannelID), edge.Capacity)

\* the snapshot half of C12: WriteSnapshotToMemgraph has returned nil
C12_SnapshotExpands ==
    (ipc = "snapdone" /\ ierr = "nil")
      => \A k \in 1..Len(graph.Edges) :
           LET edge == graph.Edges[k]
           IN ExpandsDirections(EdgeWrites("snapedge", convertChannelIDToString(edge.ChannelId)),
                                edge.Node1Policy.MaxHtlcMsat # "",
                                edge.Node2Policy.MaxHtlcMsat # "",
                                edge.Node1_Pub, edge.Node2_Pub,
                                convertChannelIDToString(edge.ChannelId), edge.Capacity)

\* C12: in either import path every channel record gets one directed edge
\* write per present policy (2, 1 or 0), node1's policy as node1 -> node2 and
\* node2's as node2 -> node1, both with the channel's id and capacity.
C12_DirectionExpansion == C12_LivePullExpands /\ C12_SnapshotExpands

\* the error WriteSnapshotToMemgraph returns for a file in a given state
FileError(file) ==
    CASE file = "missing" -> "open"
      [] file = "unreadable" -> "read"
      [] file = "corrupt" -> "parse"

\* C16: when opening, reading or parsing the snapshot file fails,
\* WriteSnapshotToMemgraph issues no store operation and returns that error,
\* and LoadLocalSnapshot answers the request with a failure.
C16_FileFailureWritesNothing ==
    /\ [](graph.File # "ok"
           => /\ runs = <<>>
              /\ ipc \in {"open", "read", "parse", "snapdone"}
              /\ ipc = "snapdone" => ierr = FileError(graph.File)
              /\ handler.pc \in {"import", "none"}
              /\ handler.pc = "none" => resp.msg = "load:500")
    /\ [][(graph.File # "ok" /\ handler' # handler)
           => (ipc = "snapdone" /\ handler' = NoHandler /\ resp'.msg = "load:500")]_vars

\* the file did not parse and the request has been answered with a failure
C16_Witness ==
    /\ graph.File = "corrupt" /\ ierr = "parse" /\ runs = <<>>
    /\ resp.msg = "load:500" /\ handler = NoHandler /\ ~mu

\* the run of an index creation failed
IndexCreationFailed == \E k \in 1..Len(runs) : runs[k].q \in {"nodeidx", "chanidx"} /\ ~runs[k].ok

\* the live-pull half of C17: WriteGraphToMemgraph has returned after a failed
\* index creation: it does not return that failure and the writers were run
C17_LivePullIndexNonFatal ==
    (ipc = "done" /\ IndexCreationFailed)
      => /\ ierr \notin {"nodeidx", "chanidx"}
         /\ \E k \in 1..Len(runs) : runs[k].q = "chanidx"
         /\ Len(graph.Nodes) > 0 => Len(RowsOf("nodes")) > 0
         /\ Len(flatten(graph.Edges, 1)) > 0 =>
              (Len(RowsOf("chans")) > 0 \/ ierr = "nodes")

\* the snapshot half of C17: WriteSnapshotToMemgraph has returned after a
\* failed index creation: it returns that failure and wrote no node or edge
C17_SnapshotIndexFatal ==
    (ipc = "snapdone" /\ IndexCreationFailed)
      => /\ ierr \in {"nodeidx", "chanidx"}
         /\ \A k \in 1..Len(runs) : runs[k].q \in {"nodeidx", "chanidx"}
         /\ ~runs[Len(runs)].ok

\* C17: a failed index creation is non-fatal in the live-pull import (the node
\* and channel batches are still written and the import does not fail because
\* of it) and a hard failure in the snapshot-file import (nothing is written
\* and the error is returned).
C17_IndexFailurePolicy == C17_LivePullIndexNonFatal /\ C17_SnapshotIndexFatal

(* ------------------- the graph store (Memgraph) ------------------------ *)

\* the value of a property: absent, or present with value v
NULL == {}

Some(v) == {v}

\* The store: its nodes in order of creation (a node is known by its position)
\* and its directed edges between node positions.
EmptyStore == [nodes |-> <<>>, edges |-> {}]

\* MATCH (n:node {pubkey: pk}): the nodes it binds
MatchNodes(s, pk) == {i \in 1..Len(s.nodes) : s.nodes[i].pubkey = pk}

\* MERGE (n:node {pubkey: pk}): a node is created when none matches
MergeNode(s, pk) ==
    IF MatchNodes(s, pk) # {} THEN s
    ELSE [s EXCEPT !.nodes = Append(@, [pubkey |-> pk, alias |-> NULL, is_wumbo |-> NULL])]

\* MERGE (n:node {pubkey: pk}) SET n.alias = alias
UpsertNode(s, pk, alias) ==
    LET m == MergeNode(s, pk)
    IN [m EXCEPT !.nodes = [i \in 1..Len(m.nodes) |->
                              IF m.nodes[i].pubkey = pk
                                THEN [m.nodes[i] EXCEPT !.alias = Some(alias)]
                                ELSE m.nodes[i]]]

\* CREATE in place of the MERGE of the snapshot node query
CreateSnapshotNode(s, pk, alias, wumbo) ==
    [s EXCEPT !.nodes = Append(@, [pubkey |-> pk, alias |-> Some(alias), is_wumbo |-> Some(wumbo)])]

\* MERGE (n:node {pubkey: pk, alias: alias, is_wumbo: wumbo}): a node matches
\* only when all three properties are equal
MergeSnapshotNode(s, pk, alias, wumbo) ==
    IF \E i \in 1..Len(s.nodes) :
         s.nodes[i] = [pubkey |-> pk, alias |-> Some(alias), is_wumbo |-> Some(wumbo)]
      THEN s
      ELSE [s EXCEPT !.nodes = Append(@, [pubkey |-> pk, alias |-> Some(alias), is_wumbo |-> Some(wumbo)])]

\* For every pair (a, b) of A x B: MERGE (a)-[r:edge {channel_id: cid [, capacity: cap]}]->(b)
\* followed by SET of the policy fields and the disabled flag on r
UpsertEdges(s, A, B, chan, withCap, cap, policy, disabled) ==
    LET Hit(e, a, b) ==
            /\ e.src = a /\ e.dst = b /\ e.channel_id = chan
            /\ withCap => e.capacity = Some(cap)
        updated == {IF \E a \in A, b \in B : Hit(e, a, b)
                      THEN [e EXCEPT !.policy = policy, !.disabled = disabled]
                      ELSE e : e \in s.edges}
        created == {[src |-> p[1], dst |-> p[2], channel_id |-> chan,
                     capacity |-> (IF withCap THEN Some(cap) ELSE NULL),
                     policy |-> policy, disabled |-> disabled] :
                       p \in {q \in A \X B : ~\E e \in s.edges : Hit(e, q[1], q[2])}}
    IN [s EXCEPT !.edges = updated \cup created]

\* MATCH (a:node {pubkey: from}), (b:node {pubkey: to}) MERGE (a)-[r:edge {channel_id, capacity}]->(b) SET ...
\* the imported sample policies are enabled ones
ImportEdge(s, row) ==
    UpsertEdges(s, MatchNodes(s, row.from), MatchNodes(s, row.to),
                row.chan_id, TRUE, row.capacity, row.policy, FALSE)

\* MATCH ()-[r:edge {channel_id: cid}]->() set r.disabled = true
DisableEdges(s, chan) ==
    [s EXCEPT !.edges = {IF e.channel_id = chan THEN [e EXCEPT !.disabled = TRUE] ELSE e :
                           e \in s.edges}]

\* MATCH ()-[r:edge {channel_id: cid}]->() DELETE r
DeleteEdges(s, chan) == [s EXCEPT !.edges = {e \in s.edges : e.channel_id # chan}]

\* MERGE (n1:node {pubkey: adv}) MERGE (n2:node {pubkey: conn})
\* MERGE (n1)-[r:edge {channel_id: cid}]->(n2) SET ...
UpsertLiveEdge(s, adv, conn, chan, policy, disabled) ==
    LET m == MergeNode(MergeNode(s, adv), conn)
    IN UpsertEdges(m, MatchNodes(m, adv), MatchNodes(m, conn), chan, FALSE, 0,
                   policy, disabled)

\* the effect of the query q of an import on one row
RowOp(s, q, row) ==
    CASE q = "nodes" -> UpsertNode(s, row.pubKey, row.alias)
      [] q = "snapnode" -> MergeSnapshotNode(s, row.pubKey, row.alias, row.is_wumbo)
      [] q \in {"chans", "snapedge"} -> ImportEdge(s, row)
      [] OTHER -> s

\* UNWIND $rows AS row: the query is run for the rows in order
RECURSIVE Unwind(_, _, _, _)
Unwind(s, q, rows, k) ==
    IF k > Len(rows) THEN s ELSE Unwind(RowOp(s, q, rows[k]), q, rows, k + 1)

\* the effect of one session.Run of an import; a failed run changes nothing
ApplyRun(s, run) == IF run.ok THEN Unwind(s, run.q, run.rows, 1) ELSE s

\* the effect of a sequence of runs
RECURSIVE ApplyRuns(_, _, _)
ApplyRuns(s, rs, k) ==
    IF k > Len(rs) THEN s ELSE ApplyRuns(ApplyRun(s, rs[k]), rs, k + 1)

(* ------------- memgraph: the live update applier and the store --------- *)

\* nodes and channels of the graphs imported into the modelled store
MaxStoreRecords == 2

\* lnwire.ShortChannelID.String(), which the update types render their id with
ShortChannelIDString(c) ==
    SprintfD(blockHeight(c)) \o <<":">> \o SprintfD(blockIndex(c)) \o <<":">>
      \o SprintfD(outputIndex(c))

\* the channel the sample topology messages are about: channel 1 of the graphs
SampleChan == <<0, 256, 0, 1>>

NodeUpdateOf(pk, alias) == [IdentityKey |-> pk, Alias |-> alias]

EdgeUpdateOf(adv, conn, policy, disabled) ==
    [ChannelID |-> SampleChan, AdvertisingNode |-> adv, ConnectingNode |-> conn,
     Capacity |-> 1, RoutingPolicy |-> [Fee |-> policy, Disabled |-> disabled]]

CloseUpdateOf(c) == [ChannelID |-> c]

Message(n, e, c) == [NodeUpdates |-> n, ChannelEdgeUpdates |-> e, ChannelCloseUpdates |-> c]

\* the topology messages the loop receives
Messages ==
    {Message(<<NodeUpdateOf(1, 1)>>, <<>>, <<>>),
     Message(<<NodeUpdateOf(2, 7), NodeUpdateOf(1, 8)>>,
             <<EdgeUpdateOf(1, 2, 3, FALSE), EdgeUpdateOf(2, 1, 4, FALSE)>>, <<>>),
     Message(<<>>, <<EdgeUpdateOf(2, 1, 4, TRUE)>>, <<>>),
     Message(<<>>, <<>>, <<CloseUpdateOf(SampleChan)>>),
     Message(<<NodeUpdateOf(1, 1)>>, <<EdgeUpdateOf(1, 2, 3, FALSE)>>,
             <<CloseUpdateOf(SampleChan)>>)}

NoMessage == [NodeUpdates |-> <<>>, ChannelEdgeUpdates |-> <<>>, ChannelCloseUpdates |-> <<>>]

\* the loop is between messages, no handler runs, the store is empty
InitStore ==
    /\ LndServices = TRUE
    /\ mu = FALSE
    /\ isRoutineRunning = FALSE
    /\ stopChannel = 0
    /\ chanClosed = {}
    /\ launched = 0
    /\ loop = [l \in Loops |-> NoLoop]
    /\ waiting = [d \in Descr |-> 0]
    /\ handler = NoHandler
    /\ resp = NoResp
    /\ graph = NoMessage
    /\ ipc = "idle"
    /\ idx = 0
    /\ relations = <<>>
    /\ runs = <<>>
    /\ ierr = "none"
    /\ DataIdle

\* ProcessNodeUpdate: the query and its params
ProcessNodeUpdate(nodeUpdate) ==
    [q |-> "nodeupd", pubKey |-> nodeUpdate.IdentityKey, alias |-> nodeUpdate.Alias]

\* ProcessEdgeUpdate without its test of RoutingPolicy.Disabled
ProcessEdgeUpdateAlwaysMerges(edgeUpdate) ==
    [q |-> "edgeupd",
     advertisingNode |-> edgeUpdate.AdvertisingNode,
     connectingNode |-> edgeUpdate.ConnectingNode,
     channelID |-> ShortChannelIDString(edgeUpdate.ChannelID),
     policy |-> edgeUpdate.RoutingPolicy.Fee,
     disabled |-> edgeUpdate.RoutingPolicy.Disabled]

\* ProcessEdgeUpdate: the narrow query for a disabled policy, else the merge
ProcessEdgeUpdate(edgeUpdate) ==
    IF edgeUpdate.RoutingPolicy.Disabled
      THEN [q |-> "edgedisable", channelID |-> ShortChannelIDString(edgeUpdate.ChannelID)]
      ELSE [q |-> "edgeupd",
            advertisingNode |-> edgeUpdate.AdvertisingNode,
            connectingNode |-> edgeUpdate.ConnectingNode,
            channelID |-> ShortChannelIDString(edgeUpdate.ChannelID),
            policy |-> edgeUpdate.RoutingPolicy.Fee,
            disabled |-> edgeUpdate.RoutingPolicy.Disabled]

\* ProcessCloseUpdate
ProcessCloseUpdate(closeUpdate) ==
    [q |-> "closeupd", channelID |-> ShortChannelIDString(closeUpdate.ChannelID)]

\* the effect of a query of the applier on the store
ApplyQuery(s, query) ==
    CASE query.q = "nodeupd" -> UpsertNode(s, query.pubKey, query.alias)
      [] query.q = "edgedisable" -> DisableEdges(s, query.channelID)
      [] query.q = "edgeupd" ->
           UpsertLiveEdge(s, query.advertisingNode, query.connectingNode, query.channelID,
                          query.policy, query.disabled)
      [] query.q = "closeupd" -> DeleteEdges(s, query.channelID)

\* CommitQuery(driver, query, params): the call is logged, a failed one changes
\* nothing; the store is then no longer as the last import left it
Commit(query, ok) ==
    /\ runs' = Append(runs, [q |-> query.q, rows |-> <<query>>, ok |-> ok])
    /\ store' = IF ok THEN ApplyQuery(store, query) ELSE store
    /\ imported' = <<>>

\* the range loop over update.ChannelCloseUpdates begins
EnterCloseUpdates(m) ==
    /\ idx' = 0
    /\ ipc' = IF Len(m.ChannelCloseUpdates) = 0 THEN "return" ELSE "closeupdates"

\* the edge loop is left out
EnterEdgeUpdatesSkipped(m) == EnterCloseUpdates(m)

\* the range loop over update.ChannelEdgeUpdates begins
EnterEdgeUpdates(m) ==
    IF Len(m.ChannelEdgeUpdates) = 0 THEN EnterCloseUpdates(m)
    ELSE idx' = 0 /\ ipc' = "edgeupdates"

\* the range loop over update.NodeUpdates begins
EnterNodeUpdates(m) ==
    IF Len(m.NodeUpdates) = 0 THEN EnterEdgeUpdates(m)
    ELSE idx' = 0 /\ ipc' = "nodeupdates"

\* case update := <-graphUpdates: memgraph.ProcessUpdates(Driver, update) is called
ProcessUpdates(m) ==
    /\ ipc = "idle"
    /\ graph' = m
    /\ runs' = <<>>
    /\ EnterNodeUpdates(m)
    /\ UNCHANGED <<lifeVars, relations, ierr, cid, cstr, store, imported, held, routesVars>>

\* an iteration that returns from ProcessUpdates when its write fails
ProcessUpdatesNodeReturnsOnError(ok) ==
    /\ ipc = "nodeupdates"
    /\ Commit(ProcessNodeUpdate(graph.NodeUpdates[idx + 1]), ok)
    /\ IF ~ok
         THEN idx' = 0 /\ ipc' = "return"
         ELSE IF idx + 1 < Len(graph.NodeUpdates)
           THEN idx' = idx + 1 /\ UNCHANGED ipc
           ELSE EnterEdgeUpdates(graph)
    /\ UNCHANGED <<lifeVars, graph, relations, ierr, cid, cstr, held, routesVars>>

\* one iteration of the loop over update.NodeUpdates
ProcessUpdatesNode(ok) ==
    /\ ipc = "nodeupdates"
    /\ Commit(ProcessNodeUpdate(graph.NodeUpdates[idx + 1]), ok)
    /\ IF idx + 1 < Len(graph.NodeUpdates)
         THEN idx' = idx + 1 /\ UNCHANGED ipc
         ELSE EnterEdgeUpdates(graph)
    /\ UNCHANGED <<lifeVars, graph, relations, ierr, cid, cstr, held, routesVars>>

\* one iteration of the loop over update.ChannelEdgeUpdates
ProcessUpdatesEdge(ok) ==
    /\ ipc = "edgeupdates"
    /\ Commit(ProcessEdgeUpdate(graph.ChannelEdgeUpdates[idx + 1]), ok)
    /\ IF idx + 1 < Len(graph.ChannelEdgeUpdates)
         THEN idx' = idx + 1 /\ UNCHANGED ipc
         ELSE EnterCloseUpdates(graph)
    /\ UNCHANGED <<lifeVars, graph, relations, ierr, cid, cstr, held, routesVars>>

\* one iteration of the loop over update.ChannelCloseUpdates
ProcessUpdatesClose(ok) ==
    /\ ipc = "closeupdates"
    /\ Commit(ProcessCloseUpdate(graph.ChannelCloseUpdates[idx + 1]), ok)
    /\ IF idx + 1 < Len(graph.ChannelCloseUpdates)
         THEN idx' = idx + 1 /\ UNCHANGED ipc
         ELSE idx' = 0 /\ ipc' = "return"
    /\ UNCHANGED <<lifeVars, graph, relations, ierr, cid, cstr, held, routesVars>>

\* ProcessUpdates returns to the select of the loop
ProcessUpdatesReturns ==
    /\ ipc = "return"
    /\ ipc' = "idle"
    /\ graph' = NoMessage
    /\ runs' = <<>>
    /\ UNCHANGED <<lifeVars, idx, relations, ierr, dataVars>>

\* recs cut into the batches of the batch loop
Batches(recs) ==
    [b \in 1..CeilDiv(Len(recs), batchSize) |-> batchOf(recs, (b - 1) * batchSize)]

\* the session.Run calls of WriteGraphToMemgraph on g when none fails
WriteGraphRuns(g) ==
    LET nodes == Batches([k \in 1..Len(g.Nodes) |-> nodeRecord(g.Nodes[k])])
        chans == Batches(flatten(g.Edges, 1))
    IN <<[q |-> "nodeidx", rows |-> <<>>, ok |-> TRUE],
         [q |-> "chanidx", rows |-> <<>>, ok |-> TRUE]>>
         \o [b \in 1..Len(nodes) |-> [q |-> "nodes", rows |-> nodes[b], ok |-> TRUE]]
         \o [b \in 1..Len(chans) |-> [q |-> "chans", rows |-> chans[b], ok |-> TRUE]]

\* the calls issued when the f-th one fails (f = 0: none does): every call of
\* WriteGraphToMemgraph returns at the first error
AbortAt(rs, f) ==
    IF f = 0 \/ f > Len(rs) THEN rs
    ELSE SubSeq(rs, 1, f - 1) \o <<[rs[f] EXCEPT !.ok = FALSE]>>

RECURSIVE snapshotChannelRuns(_, _)
snapshotChannelRuns(edges, k) ==
    IF k > Len(edges) THEN <<>>
    ELSE LET edge == edges[k]
             chanID == convertChannelIDToString(edge.ChannelId)
         IN writeChannelPolicyToMemgraphSnapshot(edge, edge.Node1Policy, edge.Node1_Pub,
                                                 edge.Node2_Pub, chanID, 1, TRUE)
            \o writeChannelPolicyToMemgraphSnapshot(edge, edge.Node2Policy, edge.Node2_Pub,
                                                    edge.Node1_Pub, chanID, 2, TRUE)
            \o snapshotChannelRuns(edges, k + 1)

\* the session.Run calls of WriteSnapshotToMemgraph on a parsed document g when none fails
WriteSnapshotRuns(g) ==
    <<[q |-> "nodeidx", rows |-> <<>>, ok |-> TRUE],
      [q |-> "chanidx", rows |-> <<>>, ok |-> TRUE]>>
      \o [k \in 1..Len(g.Nodes) |->
            [q |-> "snapnode", rows |-> <<snapshotNodeParams(g.Nodes[k])>>, ok |-> TRUE]]
      \o snapshotChannelRuns(g.Edges, 1)

\* the calls issued when the f-th one fails: a failed index creation is
\* returned, a failed node or edge write is logged
SkipAt(rs, f) ==
    IF f = 0 \/ f > Len(rs) THEN rs
    ELSE IF f <= 2 THEN AbortAt(rs, f)
    ELSE [rs EXCEPT ![f].ok = FALSE]

\* a reset or load handler takes the lock and drops the database
DropAll(k) ==
    /\ handler = NoHandler
    /\ handler' = [kind |-> k, pc |-> "import"]
    /\ mu' = TRUE
    /\ store' = [nodes |-> <<>>, edges |-> {}]
    /\ imported' = <<>>
    /\ UNCHANGED <<impVars, cid, cstr, held, routesVars, LndServices, isRoutineRunning, stopChannel,
                   chanClosed, launched, loop, waiting, resp>>

\* the handler's import has run and the handler returns
Imported(rs) ==
    /\ imported' = rs
    /\ store' = ApplyRuns(store, rs, 1)
    /\ handler' = NoHandler
    /\ mu' = FALSE
    /\ UNCHANGED <<impVars, cid, cstr, held, routesVars, LndServices, isRoutineRunning, stopChannel,
                   chanClosed, launched, loop, waiting, resp>>

\* ResetGraphHandler: PullGraph returned g, WriteGraphToMemgraph(g) runs
ImportPulledGraph(n, pat, f) ==
    /\ handler = [kind |-> "reset", pc |-> "import"]
    /\ Imported(AbortAt(WriteGraphRuns(GraphOf(n, pat)), f))

\* LoadLocalSnapshot: WriteSnapshotToMemgraph runs on a readable file
ImportSnapshotFile(n, pat, f) ==
    /\ handler = [kind |-> "load", pc |-> "import"]
    /\ Imported(SkipAt(WriteSnapshotRuns(SnapshotOf(n, pat, "ok")), f))

\* policy patterns of the imported graphs and the call of an import that fails
\* (0: none)
StorePatterns == {"both", "node1"}

FailurePoints == {0, 4}

NextStore ==
    \/ \E k \in {"reset", "load"} : DropAll(k)
    \/ \E n \in 0..MaxStoreRecords, pat \in StorePatterns, f \in FailurePoints :
         ImportPulledGraph(n, pat, f)
    \/ \E n \in 0..MaxStoreRecords, pat \in StorePatterns, f \in FailurePoints :
         ImportSnapshotFile(n, pat, f)
    \/ \E m \in Messages : ProcessUpdates(m)
    \/ \E ok \in BOOLEAN : ProcessUpdatesNode(ok)
    \/ \E ok \in BOOLEAN : ProcessUpdatesEdge(ok)
    \/ \E ok \in BOOLEAN : ProcessUpdatesClose(ok)
    \/ ProcessUpdatesReturns

SpecStore == InitStore /\ [][NextStore]_vars

(* ------------------------ properties of the store ---------------------- *)

\* the step in which the import of a reset or load handler runs
ImportStep == handler.pc = "import" /\ handler'.pc = "none"

ChannelEdges(s, c) ==
    {e \in s.edges : e.channel_id \in {convertChannelIDToString(c), chanIDx(c)}}

\* channel c has exactly two directed edges, one in each direction
TwoDirectedEdges(s, c) ==
    /\ Cardinality(ChannelEdges(s, c)) = 2
    /\ \E e \in ChannelEdges(s, c), g \in ChannelEdges(s, c) :
         /\ e # g
         /\ s.nodes[e.src].pubkey = s.nodes[g.dst].pubkey
         /\ s.nodes[e.dst].pubkey = s.nodes[g.src].pubkey

\* the step in which a query of the applier is committed and succeeds
Committed == Len(runs') = Len(runs) + 1 /\ runs'[Len(runs')].ok

\* C13: a close update for a channel that has two directed edges removes both
\* and leaves every node and every other edge in the store.
C13_CloseRemovesBothEdges ==
    [][(ipc = "closeupdates" /\ Committed
          /\ TwoDirectedEdges(store, graph.ChannelCloseUpdates[idx + 1].ChannelID))
         => /\ store'.nodes = store.nodes
            /\ store'.edges =
                 store.edges \ ChannelEdges(store, graph.ChannelCloseUpdates[idx + 1].ChannelID)]_vars

\* C14: an edge update with disabled = true creates no node and no edge and
\* changes no attribute but the disabled flag of the edges that carry its
\* channel id; with no such edge it changes nothing.
C14_DisabledUpdateIsNarrow ==
    [][(ipc = "edgeupdates" /\ Committed
          /\ graph.ChannelEdgeUpdates[idx + 1].RoutingPolicy.Disabled)
         => LET id == ShortChannelIDString(graph.ChannelEdgeUpdates[idx + 1].ChannelID)
            IN /\ store'.nodes = store.nodes
               /\ Cardinality(store'.edges) = Cardinality(store.edges)
               /\ \A e \in store.edges :
                    IF e.channel_id = id
                      THEN [e EXCEPT !.disabled = TRUE] \in store'.edges
                      ELSE e \in store'.edges
               /\ (\A e \in store.edges : e.channel_id # id) => store' = store]_vars

\* a disabled update has set the flag on the edges of its channel and on no other
C14_Witness ==
    /\ ipc \in {"edgeupdates", "closeupdates", "return"}
    /\ Len(runs) > 0
    /\ runs[Len(runs)].q = "edgedisable" /\ runs[Len(runs)].ok
    /\ \E e \in store.edges : e.disabled
    /\ \E e \in store.edges : ~e.disabled

\* the query ProcessUpdates has to issue in position j for message m
ExpectedQuery(m, j) ==
    LET a == Len(m.NodeUpdates)
        b == Len(m.ChannelEdgeUpdates)
    IN IF j <= a THEN ProcessNodeUpdate(m.NodeUpdates[j])
       ELSE IF j <= a + b THEN ProcessEdgeUpdate(m.ChannelEdgeUpdates[j - a])
       ELSE ProcessCloseUpdate(m.ChannelCloseUpdates[j - a - b])

\* C15: the writes of one message are issued as: its node updates in their
\* order, then its edge updates in their order, then its close updates in
\* their order, none left out.
C15_IntraMessageOrder ==
    /\ ipc \in {"nodeupdates", "edgeupdates", "closeupdates", "return"}
         => /\ Len(runs) <= Len(graph.NodeUpdates) + Len(graph.ChannelEdgeUpdates)
                              + Len(graph.ChannelCloseUpdates)
            /\ \A j \in 1..Len(runs) : runs[j].rows = <<ExpectedQuery(graph, j)>>
    /\ ipc = "return"
         => Len(runs) = Len(graph.NodeUpdates) + Len(graph.ChannelEdgeUpdates)
                          + Len(graph.ChannelCloseUpdates)

\* a message with a node, an edge and a close update has been processed
C15_Witness ==
    /\ ipc = "return" /\ Len(runs) = 3
    /\ runs[1].q = "nodeupd" /\ runs[2].q = "edgeupd" /\ runs[3].q = "closeupd"

\* C19: the store never holds two nodes with the same public key.
C19_UniquePublicKeys ==
    \A i \in 1..Len(store.nodes), j \in 1..Len(store.nodes) :
      i # j => store.nodes[i].pubkey # store.nodes[j].pubkey

(* --------------- the controller: channels, the lock, the loop ---------- *)

\* the step in which a handler calls close(stopChannel): stopRoutine is reached
\* (past requireLND in toggle and reset) and finds the flag set
CloseCalled ==
    /\ isRoutineRunning
    /\ \/ (Handled("toggle") \/ Handled("reset")) /\ LndServices
       \/ Handled("load")

\* the step in which the loop l is launched
Launched(l) == loop[l].pc = "none" /\ loop'[l].pc # "none"

\* C21: every Stopped -> Running transition makes a new cancellation channel
\* and launches exactly one loop, which is handed that channel; a channel is
\* closed at most once and never before it is made (nil is never closed); no
\* loop is launched with a channel that is closed or that another loop holds.
C21_FreshChannelPerStart ==
    /\ [][(~isRoutineRunning /\ isRoutineRunning')
            => /\ stopChannel' # 0 /\ stopChannel' # stopChannel
               /\ stopChannel' \notin chanClosed'
               /\ \A l \in Loops : loop[l].stop # stopChannel'
               /\ Cardinality({l \in Loops : Launched(l)}) = 1
               /\ \A l \in Loops : Launched(l) => loop'[l].stop = stopChannel']_vars
    /\ [][\A l \in Loops :
            Launched(l)
            => /\ ~isRoutineRunning /\ isRoutineRunning'
               /\ loop'[l].stop \notin chanClosed'
               /\ \A k \in Loops \ {l} : loop'[k].stop # loop'[l].stop]_vars
    /\ [][CloseCalled
            => /\ stopChannel \in 1..launched
               /\ stopChannel \notin chanClosed
               /\ chanClosed' = chanClosed \cup {stopChannel}]_vars
    /\ [][chanClosed' # chanClosed => CloseCalled]_vars

\* two starts with a stop in between: each loop holds its own channel, the
\* first channel is closed and the second is open
C21_Witness ==
    /\ launched = 2 /\ isRoutineRunning
    /\ loop[1].stop = 1 /\ loop[2].stop = 2 /\ stopChannel = 2
    /\ chanClosed = {1}

\* the step in which the loop l runs its subscription-failure path
FailurePath(l) == loop[l].pc = "failed" /\ loop'[l].pc = "ret_fail"

\* C22: isRoutineRunning and stopChannel (and the channel's closed state) are
\* written only by a party that holds mu: a handler or a loop's failure path
\* that found mu free and locked it in the step of the write; mu has at most
\* one holder, the reset or load handler that is between its Lock and Unlock.
C22_WritesUnderLock ==
    /\ [](mu <=> handler.pc # "none")
    /\ [][(\/ isRoutineRunning' # isRoutineRunning
           \/ stopChannel' # stopChannel
           \/ chanClosed' # chanClosed)
          => /\ ~mu
             /\ \/ \E k \in {"toggle", "reset", "load"} : Handled(k)
                \/ \E l \in Loops : FailurePath(l)]_vars
    /\ [][mu => (\A k \in Kinds : ~Handled(k)) /\ (\A l \in Loops : ~FailurePath(l))]_vars

\* a reset or load handler has closed the first channel under the lock and
\* holds it while a toggle and a failed loop wait for it
C22_Witness ==
    /\ mu /\ handler.pc = "drop" /\ chanClosed = {1} /\ ~isRoutineRunning
    /\ loop[1].pc = "failed"
    /\ \E d \in Descr : d.kind = "toggle" /\ waiting[d] > 0

\* C23: while a reset or load-snapshot request is in progress (from its
\* stopRoutine to its return) the state is Stopped, never becomes Running and
\* no loop is launched; a toggle that arrived meanwhile stays blocked in
\* mu.Lock() and runs only after the request has returned.
C23_NoStartDuringReload ==
    /\ [](PastStop => ~isRoutineRunning)
    /\ [][PastStop
            => /\ ~isRoutineRunning'
               /\ launched' = launched
               /\ stopChannel' = stopChannel
               /\ \A l \in Loops : ~Launched(l)
               /\ ~Handled("toggle")]_vars

\* a reset or load handler that stopped the first loop is importing while a
\* toggle issued in the Stopped state is blocked in mu.Lock()
C23_Witness ==
    /\ handler.pc = "import" /\ mu /\ ~isRoutineRunning
    /\ launched = 1 /\ chanClosed = {1}
    /\ waiting[[kind |-> "toggle", sawRunning |-> FALSE]] > 0

\* the goroutine of the loop has returned
Exited(l) == loop[l].pc \in {"ret_stop", "ret_fail"}

\* C24: a loop whose cancellation channel has been closed eventually exits,
\* even when upstream messages keep arriving (every store write returns and
\* the select is fair); an exited loop never runs again.
C24_CancelledLoopExits ==
    /\ \A l \in Loops : (Alive(l) /\ Cancelled(l)) ~> Exited(l)
    /\ [][\A l \in Loops : Exited(l) => loop'[l] = loop[l]]_vars

\* the first loop was cancelled by a stop request and has left through its
\* stop case
C24_Witness ==
    /\ loop[1] = [pc |-> "ret_stop", stop |-> 1]
    /\ chanClosed = {1} /\ launched = 1 /\ ~isRoutineRunning
    /\ resp.msg = "toggle:stopped"

\* C25: once a loop has received an error on the upstream error stream it
\* applies no further topology message, and it terminates.
C25_ErrorEndsLoop ==
    /\ [][\A l \in Loops : loop[l].pc = "erred" => loop'[l].pc # "process"]_vars
    /\ \A l \in Loops : (loop[l].pc = "erred") ~> Exited(l)

\* the termination half of C25 alone
C25_ErrorLeadsToExit == \A l \in Loops : (loop[l].pc = "erred") ~> Exited(l)

(* ------------------- further properties of the applier ----------------- *)

\* ProcessUpdates is in one of its three range loops or about to return
Applying == ipc \in {"nodeupdates", "edgeupdates", "closeupdates", "return"}

\* the events of message m
Events(m) == Len(m.NodeUpdates) + Len(m.ChannelEdgeUpdates) + Len(m.ChannelCloseUpdates)

\* the events of the message in hand the range loops have been through (a
\* reset or load handler may run meanwhile; the applier's steps are those that
\* change impVars)
Visited ==
    CASE ipc = "nodeupdates" -> idx
      [] ipc = "edgeupdates" -> Len(graph.NodeUpdates) + idx
      [] ipc = "closeupdates" -> Len(graph.NodeUpdates) + Len(graph.ChannelEdgeUpdates) + idx
      [] OTHER -> Events(graph)

\* C26: in the live applier every event yields exactly one write attempt and a
\* failed write stops nothing: whatever subset of the writes fails, one write
\* has been attempted for each event gone through, a + b + c in all when
\* ProcessUpdates returns, and it returns to the loop, which takes the next
\* message.
C26_OneWritePerEvent ==
    /\ [](Applying => Len(runs) = Visited)
    /\ [][(Applying /\ ipc # "return" /\ impVars' # impVars)
            => /\ Len(runs') = Len(runs) + 1
               /\ Applying'
               /\ graph' = graph]_vars
    /\ [][(ipc = "return" /\ impVars' # impVars) => (ipc' = "idle" /\ store' = store)]_vars
    /\ [][(ipc = "idle" /\ impVars' # impVars)
            => /\ graph' \in Messages /\ runs' = <<>>
               /\ IF Events(graph') = 0 THEN ipc' = "return" ELSE Applying']_vars

\* of the three writes of a message the first two failed and the third was
\* attempted and succeeded
C26_Witness ==
    /\ ipc = "return" /\ Len(runs) = 3 /\ Events(graph) = 3
    /\ ~runs[1].ok /\ ~runs[2].ok /\ runs[3].ok

\* the edges of store s that run from a node with key adv to a node with key
\* conn and carry the channel id chan
DirectedEdges(s, adv, conn, chan) ==
    {e \in s.edges : /\ e.channel_id = chan
                     /\ s.nodes[e.src].pubkey = adv
                     /\ s.nodes[e.dst].pubkey = conn}

\* the step in which an edge update with disabled = false has been applied
EnabledUpdateApplied ==
    /\ ipc = "edgeupdates" /\ Committed
    /\ ~graph.ChannelEdgeUpdates[idx + 1].RoutingPolicy.Disabled

\* what C27 says of the store t an enabled edge update u leaves, applied to store s
MergedEdge(s, t, u) ==
    LET adv == u.AdvertisingNode
        conn == u.ConnectingNode
        id == ShortChannelIDString(u.ChannelID)
        absent == {pk \in {adv, conn} : MatchNodes(s, pk) = {}}
    IN /\ MatchNodes(t, adv) # {} /\ MatchNodes(t, conn) # {}
       /\ Len(t.nodes) = Len(s.nodes) + Cardinality(absent)
       /\ SubSeq(t.nodes, 1, Len(s.nodes)) = s.nodes
       /\ Cardinality(DirectedEdges(t, adv, conn, id)) = 1
       /\ \A e \in DirectedEdges(t, adv, conn, id) :
            e.policy = u.RoutingPolicy.Fee /\ e.disabled = u.RoutingPolicy.Disabled
       /\ ApplyQuery(t, ProcessEdgeUpdate(u)) = t

\* C27: after an edge update with disabled = false is applied both endpoint
\* nodes exist (created only if absent) and exactly one directed edge runs from
\* the advertising to the connecting node with that channel id, carrying the
\* announced fee base, fee rate, time-lock delta and disabled value; applying
\* the same update again creates no further node or edge.
C27_EnabledUpdateMerges ==
    [][EnabledUpdateApplied
         => MergedEdge(store, store', graph.ChannelEdgeUpdates[idx + 1])]_vars

\* C27 for a store in which no two nodes share a public key
C27_MergesWhenKeysUnique ==
    [][(EnabledUpdateApplied /\ C19_UniquePublicKeys)
         => MergedEdge(store, store', graph.ChannelEdgeUpdates[idx + 1])]_vars

(* --------------- routes: one reset or load request, end to end --------- *)

\* a reset or load request is about to be handled; the loop is running or not;
\* graph is what PullGraph will return or what describegraph.json holds
InitReload ==
    /\ \E lnd \in BOOLEAN, running \in BOOLEAN, k \in {"reset", "load"} :
         /\ running => lnd
         /\ LndServices = lnd
         /\ isRoutineRunning = running
         /\ stopChannel = (IF running THEN 1 ELSE 0)
         /\ launched = (IF running THEN 1 ELSE 0)
         /\ loop = [l \in Loops |-> IF running /\ l = 1 THEN [pc |-> "select", stop |-> 1]
                                                          ELSE NoLoop]
         /\ waiting = [d \in Descr |-> IF d.kind = k THEN 1 ELSE 0]
         /\ IF k = "reset"
              THEN /\ \E n \in 0..MaxStoreRecords, pat \in Patterns : graph = GraphOf(n, pat)
                   /\ ipc = "nodeidx"
              ELSE /\ \E n \in 0..MaxStoreRecords, pat \in Patterns, file \in FileStates :
                        graph = SnapshotOf(n, pat, file)
                   /\ ipc = "open"
    /\ mu = FALSE
    /\ chanClosed = {}
    /\ handler = NoHandler
    /\ resp = NoResp
    /\ idx = 0
    /\ relations = <<>>
    /\ runs = <<>>
    /\ ierr = "none"
    /\ DataIdle

\* WriteGraphToMemgraph returns to ResetGraphHandler without looking at its error
WriteGraphReturnsUnchecked ==
    /\ ipc = "done"
    /\ Import(TRUE)

\* WriteGraphToMemgraph returns to ResetGraphHandler
WriteGraphReturns ==
    /\ ipc = "done"
    /\ Import(ierr = "nil")

\* the handler runs alone; the importers' steps are those of the call the
\* handler makes at pc "import"
NextReload ==
    \/ \E d \in Descr : ResetGraphHandler(d)
    \/ \E d \in Descr : LoadLocalSnapshot(d)
    \/ \E ok \in BOOLEAN : DropDatabase(ok)
    \/ \E ok \in BOOLEAN : PullGraph(ok)
    \/ \E ok \in BOOLEAN : handler.pc = "import" /\ createNodeIndex(ok)
    \/ \E ok \in BOOLEAN : handler.pc = "import" /\ createIndexForChannels(ok)
    \/ \E ok \in BOOLEAN : handler.pc = "import" /\ writeNodesToMemgraph(ok)
    \/ \E ok \in BOOLEAN : handler.pc = "import" /\ writeChannelsToMemgraph(ok)
    \/ WriteGraphReturns
    \/ handler.pc = "import" /\ OpenSnapshot
    \/ handler.pc = "import" /\ ReadSnapshot
    \/ handler.pc = "import" /\ UnmarshalSnapshot
    \/ \E ok \in BOOLEAN : handler.pc = "import" /\ snapshotCreateNodeIndex(ok)
    \/ \E ok \in BOOLEAN : handler.pc = "import" /\ snapshotCreateIndexForChannels(ok)
    \/ \E ok \in BOOLEAN : handler.pc = "import" /\ writeSnapshotNodesToMemgraph(ok)
    \/ \E ok1 \in BOOLEAN, ok2 \in BOOLEAN :
         handler.pc = "import" /\ writeSnapshotChannelsToMemgraph(ok1, ok2)
    \/ WriteSnapshotReturns
    \/ \E ok \in BOOLEAN : SetupAfterImport(ok)
    \/ \E l \in Loops : SelectStop(l)

SpecReload == InitReload /\ [][NextReload]_vars

\* the handler moves from pc p on
Leaves(p) == handler.pc = p /\ handler' # handler

\* the handler answers 500 and returns
Fails == handler' = NoHandler /\ resp'.msg = handler.kind \o ":500" /\ ~mu'

\* the handler goes on to pc p
GoesTo(p) == handler' = [handler EXCEPT !.pc = p] /\ mu' /\ resp' = resp

\* the importer has returned
ImportReturned == ipc \in {"done", "snapdone"}

\* C28: a reset or load-snapshot request runs stop, drop, (pull,) import,
\* post-processing in this order; SetupAfterImport is called exactly once and
\* only after the import has returned without error, and not at all when the
\* drop, the pull or the import fails.
C28_ReloadOrder ==
    /\ [][Leaves("none")
            => /\ handler'.pc = "drop" /\ mu'
               /\ ~isRoutineRunning'
               /\ isRoutineRunning => stopChannel \in chanClosed'
               /\ runs = <<>>]_vars
    /\ [][Leaves("drop")
            => \/ GoesTo(IF handler.kind = "reset" THEN "pull" ELSE "import")
               \/ Fails]_vars
    /\ [][Leaves("pull") => (GoesTo("import") \/ Fails)]_vars
    /\ [][(runs' # runs \/ ipc' # ipc) => (handler.pc = "import" /\ handler' = handler)]_vars
    /\ [][Leaves("import")
            => /\ ImportReturned
               /\ IF ierr = "nil" THEN GoesTo("setup") ELSE Fails]_vars
    /\ [][Leaves("setup")
            => /\ handler' = NoHandler /\ ~mu'
               /\ resp'.msg \in {handler.kind \o ":200", handler.kind \o ":500"}]_vars
    /\ [](handler.pc = "setup" => (ImportReturned /\ ierr = "nil"))
    /\ [](resp.msg \in {"reset:200", "load:200"} => (ImportReturned /\ ierr = "nil"))

\* a reset that stopped the running loop has pulled, imported without error
\* and run the post-processing
C28_Witness ==
    /\ resp.msg = "reset:200" /\ handler = NoHandler
    /\ chanClosed = {1} /\ ~isRoutineRunning
    /\ ipc = "done" /\ ierr = "nil" /\ Len(runs) > 2

(* ----------------- the controller: the flag and the channel ------------ *)

\* close(stopChannel) would panic: the channel is nil or already closed
ClosePanics == stopChannel = 0 \/ stopChannel \in chanClosed

\* C29: whenever isRoutineRunning is true, stopChannel is non-nil and not yet
\* closed, so the close in stopRoutine never panics, under any sequence of
\* toggle, reset and load-snapshot requests and subscription failures.
C29_RunningHasOpenChannel == isRoutineRunning => ~ClosePanics

\* after a start, a stop that closed the first channel and the late failure
\* of the first loop's subscription, a second start has set the flag with a
\* new, open channel
C29_Witness ==
    /\ isRoutineRunning /\ stopChannel = 2 /\ chanClosed = {1}
    /\ loop[1].pc = "ret_fail" /\ loop[2].pc = "subscribe"

\* C30: no loop is orphaned: every alive loop either has had its cancellation
\* channel closed or listens on the channel held in stopChannel while the flag
\* is Running, so that a stop, reset or load request cancels every loop that
\* still consumes updates.
C30_NoOrphanLoop ==
    \A l \in Loops :
      Alive(l) => \/ Cancelled(l)
                  \/ (loop[l].stop = stopChannel /\ isRoutineRunning)

(* ------------- routes: reset and load requests over the store ---------- *)

\* the call of an import that fails (0: none; 1: the node index; 3, 4: writes)
RequestFailures == {0, 1, 3, 4}

\* no request is in hand, the store is empty
InitRequest ==
    /\ LndServices \in BOOLEAN
    /\ mu = FALSE
    /\ isRoutineRunning = FALSE
    /\ stopChannel = 0
    /\ chanClosed = {}
    /\ launched = 0
    /\ loop = [l \in Loops |-> NoLoop]
    /\ waiting = [d \in Descr |-> 0]
    /\ handler = NoHandler
    /\ resp = NoResp
    /\ graph = [Nodes |-> <<>>, Edges |-> <<>>]
    /\ ipc = "idle"
    /\ idx = 0
    /\ relations = <<>>
    /\ runs = <<>>
    /\ ierr = "none"
    /\ DataIdle

\* memgraph.DropDatabase on the store: MATCH (n) DETACH DELETE n; when the run
\* fails nothing is deleted and the handler answers 500
DropDatabaseRuns(ok) ==
    /\ handler.pc = "drop"
    /\ held' = store
    /\ IF ok THEN /\ store' = [nodes |-> <<>>, edges |-> {}]
                  /\ Goto(IF handler.kind = "reset" THEN "pull" ELSE "import")
             ELSE /\ store' = store
                  /\ Respond(handler.kind \o ":500")
    /\ imported' = <<>>
    /\ UNCHANGED <<impVars, cid, cstr, routesVars, LndServices, isRoutineRunning, stopChannel,
                   chanClosed, launched, loop, waiting>>

\* the import's runs rs are applied and the handler goes on or answers 500
ImportReturns(rs, err) ==
    /\ imported' = rs
    /\ store' = ApplyRuns(store, rs, 1)
    /\ IF err THEN Respond(handler.kind \o ":500") ELSE Goto("setup")
    /\ UNCHANGED <<impVars, cid, cstr, held, routesVars, LndServices, isRoutineRunning, stopChannel,
                   chanClosed, launched, loop, waiting>>

\* ResetGraphHandler: lnd.WriteGraphToMemgraph(graph, Driver) on the pulled
\* graph; it returns the error of the first run that fails
WriteGraphToStore(n, pat, f) ==
    /\ handler = [kind |-> "reset", pc |-> "import"]
    /\ LET rs == AbortAt(WriteGraphRuns(GraphOf(n, pat)), f)
       IN ImportReturns(rs, \E k \in 1..Len(rs) : ~rs[k].ok)

\* LoadLocalSnapshot: lnd.WriteSnapshotToMemgraph("./describegraph.json", Driver);
\* it returns a file error before any run, or the error of an index creation
WriteSnapshotToStore(n, pat, file, f) ==
    /\ handler = [kind |-> "load", pc |-> "import"]
    /\ LET rs == IF file # "ok" THEN <<>>
                 ELSE SkipAt(WriteSnapshotRuns(SnapshotOf(n, pat, file)), f)
       IN ImportReturns(rs, \/ file # "ok"
                            \/ \E k \in 1..Len(rs) :
                                 rs[k].q \in {"nodeidx", "chanidx"} /\ ~rs[k].ok)

NextRequest ==
    \/ \E k \in {"reset", "load"} : Arrive(k, 1)
    \/ \E d \in Descr : ResetGraphHandler(d)
    \/ \E d \in Descr : LoadLocalSnapshot(d)
    \/ \E ok \in BOOLEAN : DropDatabaseRuns(ok)
    \/ \E ok \in BOOLEAN : PullGraph(ok)
    \/ \E n \in 0..MaxStoreRecords, pat \in StorePatterns, f \in RequestFailures :
         WriteGraphToStore(n, pat, f)
    \/ \E n \in 0..MaxStoreRecords, pat \in StorePatterns, file \in FileStates,
          f \in RequestFailures :
         WriteSnapshotToStore(n, pat, file, f)
    \/ \E ok \in BOOLEAN : SetupAfterImport(ok)

SpecRequest == InitRequest /\ [][NextRequest]_vars

\* C31: a reset or load-snapshot request that returns an error (of the drop,
\* the graph pull, the snapshot file, an index or a write) leaves the store
\* with the nodes and edges it held before the request.
C31_FailedRequestKeepsStore ==
    /\ [][(handler.pc = "drop" /\ handler' = NoHandler) => store' = store]_vars
    /\ [][(handler.pc \in {"pull", "import"} /\ handler' = NoHandler) => store' = held]_vars

(* -------------- the channel id of the import and of the applier -------- *)

\* the edges of store s that the live-pull import wrote for the channel c
PulledEdges(s, c) == {e \in s.edges : e.channel_id = chanIDx(c)}

\* C32: for the same 64-bit channel id the channel_id the live-pull import
\* stores on an edge is the string the live applier matches edges with (the id
\* rendered as height:index:output); so an edge update for an imported channel
\* and direction adds no second edge, and a close update deletes the imported
\* edges of its channel.
C32_ImportAndApplierAgreeOnId ==
    /\ [](\A e \in PulledEdges(store, SampleChan) :
            e.channel_id = ShortChannelIDString(SampleChan))
    /\ [][EnabledUpdateApplied
            => LET u == graph.ChannelEdgeUpdates[idx + 1]
               IN (\E e \in PulledEdges(store, u.ChannelID) :
                     /\ store.nodes[e.src].pubkey = u.AdvertisingNode
                     /\ store.nodes[e.dst].pubkey = u.ConnectingNode)
                  => Cardinality(store'.edges) = Cardinality(store.edges)]_vars
    /\ [][(ipc = "closeupdates" /\ Committed)
            => PulledEdges(store', graph.ChannelCloseUpdates[idx + 1].ChannelID) = {}]_vars

\* the two renderings of the id in hand
C32_SameRendering == chanIDx(cid) = ShortChannelIDString(cid)

(* ------------------- the controller: freedom from deadlock ------------- *)

\* the model launches no further loop: a start request stays in mu.Lock()
LaunchCapReached == launched = MaxLoops /\ ~isRoutineRunning

\* C33: the controller is deadlock-free: the holder of mu never waits for the
\* loop, so under any interleaving every toggle, reset, load-snapshot and
\* status request and every loop on its subscription-failure path eventually
\* acquires mu and returns (the store and upstream calls return). Requests of
\* one descriptor are not told apart: no request of a descriptor waits for
\* ever while none of that descriptor is handled.
C33_DeadlockFree ==
    /\ \A d \in Descr :
         \/ []<><<HandlerOf(d)>>_vars
         \/ <>[](waiting[d] = 0)
         \/ <>[](d.kind = "toggle" /\ LaunchCapReached)
    /\ (handler.pc # "none") ~> (handler.pc = "none" /\ ~mu)
    /\ \A l \in Loops : (loop[l].pc = "failed") ~> (loop[l].pc = "ret_fail")

\* a load handler holds mu in its post-processing while a status request and
\* the failure path of the first loop wait for it
C33_Witness ==
    /\ mu /\ handler = [kind |-> "load", pc |-> "setup"]
    /\ waiting[[kind |-> "status", sawRunning |-> FALSE]] > 0
    /\ loop[1].pc = "failed"


(* ------------- routes.go: the handlers that take no mutex -------------- *)
\* The variant of package routes in src/routes/routes.go keeps the flag and
\* the stop channel in package variables that handlers and goroutines read and
\* write with no lock.  A stop is `StopChannel <- true` on an unbuffered
\* channel followed by close(StopChannel).  Every statement on a package
\* variable is one step, so that the steps of concurrent requests and of the
\* goroutines interleave.

Slots == 1..MaxReq

\* the routes whose handlers stop the routine
Stoppers == {"toggle", "reset", "load"}

\* channel identities: one more than the references that can be live at once
MaxChans == MaxReq + MaxLoops + 2
Chans == 1..MaxChans

\* the channels a package variable, a blocked sender or a select refers to
Referenced ==
    {StopChannel} \cup {request[r].ch : r \in Slots} \cup {goroutine[g].ch : g \in Loops}

\* make(chan bool): a channel nothing refers to, open
NewChan == CHOOSE c \in Chans : c \notin Referenced /\ \A b \in Chans \ Referenced : c <= b

\* log.Fatalf: os.Exit ends the handlers and the goroutines of the process
ExitedRequests == [r \in Slots |-> [kind |-> "none", pc |-> "exited", ch |-> 0]]
ExitedGoroutines == [g \in Loops |-> [pc |-> "exited", ch |-> 0]]

\* close() calls on channels nothing refers to any more are forgotten
StillReferenced(closed) == closedChannels' = closed \cap Referenced'

\* the toggle requests that may still reach `go SubscribeToGraphUpdates()`
MayLaunch ==
    {r \in Slots : request[r].kind = "toggle"
                    /\ request[r].pc \in {"subscribe", "test", "set_true", "make", "go"}}

FreeGoroutines == {g \in Loops : goroutine[g].pc = "none"}

RoutesUnchanged == UNCHANGED <<lifeVars, impVars, cid, cstr, store, imported, held>>

At(r, k, p) == request[r].kind = k /\ request[r].pc = p

Step(r, p) == request' = [request EXCEPT ![r].pc = p]

\* gin hands a request to its handler in a goroutine of its own
Serve(r, k) ==
    /\ request[r] = NoRequest
    /\ \A q \in Slots : request[q] = NoRequest => r <= q
    /\ k = "toggle" => Cardinality(FreeGoroutines) > Cardinality(MayLaunch)
    /\ request' = [request EXCEPT ![r] =
                      [kind |-> k,
                       pc |-> IF k = "toggle" THEN "subscribe" ELSE "test",
                       ch |-> 0]]
    /\ UNCHANGED <<IsRoutineRunning, StopChannel, closedChannels, goroutine>>
    /\ RoutesUnchanged

\* ToggleUpdatesHandler: SubscribeGraph, log.Fatalf when it fails
ToggleSubscribeGraph(r, ok) ==
    /\ At(r, "toggle", "subscribe")
    /\ IF ok THEN Step(r, "test") /\ UNCHANGED goroutine
             ELSE request' = ExitedRequests /\ goroutine' = ExitedGoroutines
    /\ UNCHANGED <<IsRoutineRunning, StopChannel>>
    /\ StillReferenced(closedChannels)
    /\ RoutesUnchanged

\* `if !IsRoutineRunning` of the toggle, `if IsRoutineRunning` of reset and load
TestRunning(r) ==
    /\ request[r].kind \in {"toggle", "reset", "load"}
    /\ request[r].pc = "test"
    /\ Step(r, IF IsRoutineRunning THEN "set_false"
               ELSE IF request[r].kind = "toggle" THEN "set_true" ELSE "reload")
    /\ UNCHANGED <<IsRoutineRunning, StopChannel, closedChannels, goroutine>>
    /\ RoutesUnchanged

\* ToggleUpdatesHandler, start branch: IsRoutineRunning = true
ToggleSetRunning(r) ==
    /\ At(r, "toggle", "set_true")
    /\ IsRoutineRunning' = TRUE
    /\ Step(r, "make")
    /\ UNCHANGED <<StopChannel, closedChannels, goroutine>>
    /\ RoutesUnchanged

\* ToggleUpdatesHandler, start branch: StopChannel = make(chan bool)
ToggleMake(r) ==
    /\ At(r, "toggle", "make")
    /\ StopChannel' = NewChan
    /\ Step(r, "go")
    /\ UNCHANGED <<IsRoutineRunning, goroutine>>
    /\ StillReferenced(closedChannels \ {NewChan})
    /\ RoutesUnchanged

\* ToggleUpdatesHandler, start branch: go SubscribeToGraphUpdates(), then the
\* response "Routine started."
ToggleGo(r) ==
    /\ At(r, "toggle", "go")
    /\ \E g \in FreeGoroutines :
         /\ \A h \in FreeGoroutines : g <= h
         /\ goroutine' = [goroutine EXCEPT ![g] = [pc |-> "subscribe", ch |-> 0]]
    /\ request' = [request EXCEPT ![r] = NoRequest]
    /\ UNCHANGED <<IsRoutineRunning, StopChannel, closedChannels>>
    /\ RoutesUnchanged

\* the stop of the three handlers: IsRoutineRunning = false
SetStopped(r) ==
    /\ request[r].pc = "set_false"
    /\ IsRoutineRunning' = FALSE
    /\ Step(r, "operand")
    /\ UNCHANGED <<StopChannel, closedChannels, goroutine>>
    /\ RoutesUnchanged

\* `StopChannel <- true`: the channel operand is read, then the send waits on
\* that channel
SendOperand(r) ==
    /\ request[r].pc = "operand"
    /\ request' = [request EXCEPT ![r].pc = "send", ![r].ch = StopChannel]
    /\ UNCHANGED <<IsRoutineRunning, StopChannel, closedChannels, goroutine>>
    /\ RoutesUnchanged

\* the unbuffered send meets the `case <-StopChannel` of a select on the same
\* channel: the goroutine returns and the sender goes on to close.  A send on
\* a nil channel meets nothing.
SendReceived(r, g) ==
    /\ request[r].pc = "send"
    /\ request[r].ch # 0
    /\ request[r].ch \notin closedChannels
    /\ goroutine[g].pc = "select"
    /\ goroutine[g].ch = request[r].ch
    /\ request' = [request EXCEPT ![r].pc = "close", ![r].ch = 0]
    /\ goroutine' = [goroutine EXCEPT ![g] = NoGoroutine]
    /\ UNCHANGED <<IsRoutineRunning, StopChannel>>
    /\ StillReferenced(closedChannels)
    /\ RoutesUnchanged

\* the channel a sender waits on is closed by another request: the send panics
SendOnClosed(r) ==
    /\ request[r].pc = "send"
    /\ request[r].ch \in closedChannels
    /\ request' = [request EXCEPT ![r].pc = "panic", ![r].ch = 0]
    /\ UNCHANGED <<IsRoutineRunning, StopChannel, goroutine>>
    /\ StillReferenced(closedChannels)
    /\ RoutesUnchanged

\* close(StopChannel): a panic on a nil or closed channel; the toggle then
\* answers "Routine stopped.", reset and load go on to the store
CloseStopChannel(r) ==
    /\ request[r].pc = "close"
    /\ IF StopChannel = 0 \/ StopChannel \in closedChannels
         THEN /\ Step(r, "panic")
              /\ UNCHANGED closedChannels
         ELSE /\ closedChannels' = closedChannels \cup {StopChannel}
              /\ request' = [request EXCEPT ![r] =
                                IF request[r].kind = "toggle" THEN NoRequest
                                ELSE [request[r] EXCEPT !.pc = "reload"]]
    /\ UNCHANGED <<IsRoutineRunning, StopChannel, goroutine>>
    /\ RoutesUnchanged

\* gin's Recovery middleware answers 500 for a handler that panicked
Recovery(r) ==
    /\ request[r].pc = "panic"
    /\ request' = [request EXCEPT ![r] = NoRequest]
    /\ UNCHANGED <<IsRoutineRunning, StopChannel, closedChannels, goroutine>>
    /\ RoutesUnchanged

\* ResetGraphHandler: DropDatabase, PullGraph, WriteGraphToMemgraph and
\* SetupAfterImport return; LoadLocalSnapshot: the same calls on the file,
\* then its response
ReloadReturns(r) ==
    /\ request[r].pc = "reload"
    /\ request' = [request EXCEPT ![r] =
                      IF request[r].kind = "reset" THEN [request[r] EXCEPT !.pc = "make"]
                      ELSE NoRequest]
    /\ UNCHANGED <<IsRoutineRunning, StopChannel, closedChannels, goroutine>>
    /\ RoutesUnchanged

\* ResetGraphHandler: StopChannel = make(chan bool), then its response
ResetMake(r) ==
    /\ At(r, "reset", "make")
    /\ StopChannel' = NewChan
    /\ request' = [request EXCEPT ![r] = NoRequest]
    /\ UNCHANGED <<IsRoutineRunning, goroutine>>
    /\ StillReferenced(closedChannels \ {NewChan})
    /\ RoutesUnchanged

\* SubscribeToGraphUpdates: SubscribeGraph, log.Fatalf when it fails
LoopSubscribeGraph(g, ok) ==
    /\ goroutine[g].pc = "subscribe"
    /\ IF ok THEN goroutine' = [goroutine EXCEPT ![g].pc = "set_true"] /\ UNCHANGED request
             ELSE request' = ExitedRequests /\ goroutine' = ExitedGoroutines
    /\ UNCHANGED <<IsRoutineRunning, StopChannel>>
    /\ StillReferenced(closedChannels)
    /\ RoutesUnchanged

\* SubscribeToGraphUpdates: IsRoutineRunning = true
LoopSetRunning(g) ==
    /\ goroutine[g].pc = "set_true"
    /\ IsRoutineRunning' = TRUE
    /\ goroutine' = [goroutine EXCEPT ![g].pc = "make"]
    /\ UNCHANGED <<StopChannel, closedChannels, request>>
    /\ RoutesUnchanged

\* SubscribeToGraphUpdates: StopChannel = make(chan bool)
LoopMake(g) ==
    /\ goroutine[g].pc = "make"
    /\ StopChannel' = NewChan
    /\ goroutine' = [goroutine EXCEPT ![g].pc = "for"]
    /\ UNCHANGED <<IsRoutineRunning, request>>
    /\ StillReferenced(closedChannels \ {NewChan})
    /\ RoutesUnchanged

\* the select is entered: its channel operands are read
EnterSelect(g) ==
    /\ goroutine[g].pc = "for"
    /\ goroutine' = [goroutine EXCEPT ![g] = [pc |-> "select", ch |-> StopChannel]]
    /\ UNCHANGED <<IsRoutineRunning, StopChannel, closedChannels, request>>
    /\ RoutesUnchanged

\* case update := <-GraphUpdates, case err := <-Errors: the event is handled
\* and the loop goes round
SelectEvent(g) ==
    /\ goroutine[g].pc = "select"
    /\ goroutine' = [goroutine EXCEPT ![g] = [pc |-> "for", ch |-> 0]]
    /\ UNCHANGED <<IsRoutineRunning, StopChannel, request>>
    /\ StillReferenced(closedChannels)
    /\ RoutesUnchanged

\* case <-StopChannel on a closed channel: the receive returns at once
SelectClosed(g) ==
    /\ goroutine[g].pc = "select"
    /\ goroutine[g].ch \in closedChannels
    /\ goroutine' = [goroutine EXCEPT ![g] = NoGoroutine]
    /\ UNCHANGED <<IsRoutineRunning, StopChannel, request>>
    /\ StillReferenced(closedChannels)
    /\ RoutesUnchanged

NextNoMutex ==
    \/ \E r \in Slots, k \in Stoppers : Serve(r, k)
    \/ \E r \in Slots, ok \in BOOLEAN : ToggleSubscribeGraph(r, ok)
    \/ \E r \in Slots : TestRunning(r)
    \/ \E r \in Slots : ToggleSetRunning(r)
    \/ \E r \in Slots : ToggleMake(r)
    \/ \E r \in Slots : ToggleGo(r)
    \/ \E r \in Slots : SetStopped(r)
    \/ \E r \in Slots : SendOperand(r)
    \/ \E r \in Slots, g \in Loops : SendReceived(r, g)
    \/ \E r \in Slots : SendOnClosed(r)
    \/ \E r \in Slots : CloseStopChannel(r)
    \/ \E r \in Slots : Recovery(r)
    \/ \E r \in Slots : ReloadReturns(r)
    \/ \E r \in Slots : ResetMake(r)
    \/ \E g \in Loops, ok \in BOOLEAN : LoopSubscribeGraph(g, ok)
    \/ \E g \in Loops : LoopSetRunning(g)
    \/ \E g \in Loops : LoopMake(g)
    \/ \E g \in Loops : EnterSelect(g)
    \/ \E g \in Loops : SelectEvent(g)
    \/ \E g \in Loops : SelectClosed(g)

\* the mutex-guarded controller and the importers stay idle (InitStore); the
\* package variables of routes.go start as InitRoutes
SpecNoMutex == InitStore /\ [][NextNoMutex]_vars

\* a goroutine of SubscribeToGraphUpdates is running
LoopRunning == \E g \in Loops : goroutine[g].pc \notin {"none", "exited"}

\* C34: every request that stops the routine returns without panicking: no
\* handler panics in its send or its close, and a request that found
\* IsRoutineRunning true sends on a StopChannel that is non-nil and open while
\* a loop is running to receive from it -- for the first request after process
\* start and for concurrent requests alike.
C34_StopRequestReturns ==
    /\ \A r \in Slots : request[r].pc # "panic"
    /\ \A r \in Slots :
         request[r].pc = "send" =>
             /\ request[r].ch # 0
             /\ request[r].ch \notin closedChannels
             /\ LoopRunning

====
